---- MODULE Spec2Model ----
(***************************************************************************)
(* Model of backend/main.py (Sirius RPD Parser): the text utilities, the    *)
(* row classifiers, the discipline classifier, the literature parser and    *)
(* the software matcher.                                                    *)
(*                                                                          *)
(* Text.  A Python str is modelled as a sequence of characters; a character *)
(* is a short string.  String literals are written in ASCII and decoded by  *)
(* T: "~" toggles between Latin and Cyrillic mode; in Cyrillic mode every   *)
(* character stands for one Cyrillic letter, one to one:                    *)
(*   a b v g d e 1 j z i y k l m n o p r s t u f h c q w x 2 3 4 5 6 7      *)
(*   а б в г д е ё ж з и й к л м н о п р с т у ф х ц ч ш щ ъ ы ь э ю я      *)
(* (capitals: the capital Latin letter, and ! @ # $ % ^ & for Ё Ъ Ы Ь Э Ю Я)*)
(* so T("~Tema~ 1") is the str "Тема 1".  In Latin mode "_" is U+00A0       *)
(* (no-break space), "=" is U+2013 (en dash), "|" is U+2014 (em dash) and   *)
(* "#" is U+2116 (numero sign).                                             *)
(***************************************************************************)
EXTENDS Integers, Sequences, FiniteSets, TLC

VARIABLES
    fn,     \* the function of main.py being called
    arg,    \* its argument(s)
    ret,    \* its return value, None until the call has returned
    pc,     \* "called" before the body has run, "returned" after; the
            \* statement reached, in the functions that run step by step
    state,  \* literature segmentation: 'idle', 'main', 'additional', 'done'
    buf,    \* literature segmentation: the lines collected for the open list
    result, \* the LiteratureList being filled
    pos,    \* the index of the next line of the loop over the lines
    hashseed, \* the seed of hash() for str, fixed when the process starts
    calls,  \* the calls made so far, in order
    data,   \* the DisciplineData being built or linked
    db,     \* the SQLite database: the rows of every table, as the open
            \* connection sees them
    journal, \* the rows to roll back to while a transaction is open, else None
    uuids,  \* the number of identifiers uuid.uuid4() has issued
    locals, \* save_to_db: disc_id, section_ids and sw_name_to_id
    requests, \* the analyze requests of the server, each with its position
    running, \* the request whose coroutine holds the event loop, 0 if none
    heap    \* the objects the parsers have allocated, by reference

vars == <<fn, arg, ret, pc, state, buf, result, pos, hashseed, calls, data,
          db, journal, uuids, locals, requests, running, heap>>
segvars == <<state, buf, result, pos>>
linkvars == <<hashseed, calls, data>>
dbvars == <<db, journal, uuids, locals>>
servervars == <<requests, running, heap>>

None == <<>>

-----------------------------------------------------------------------------
(* Characters and strings                                                   *)

LatinUpper == "ABCDEFGHIJKLMNOPQRSTUVWXYZ"
LatinLower == "abcdefghijklmnopqrstuvwxyz"
CyrUpperCode == "ABVGDE!JZIYKLMNOPRSTUFHCQWX@#$%^&"
CyrLowerCode == "abvgde1jziyklmnoprstufhcqwx234567"
Digits == "0123456789"

NBSP == "NBSP"
ENDASH == "ENDASH"
EMDASH == "EMDASH"
NUMERO == "NUMERO"

StrChars(s) == [i \in 1..Len(s) |-> SubSeq(s, i, i)]
Range(f) == {f[i] : i \in DOMAIN f}

LatChar(c) ==
    CASE c = "_" -> NBSP
      [] c = "=" -> ENDASH
      [] c = "|" -> EMDASH
      [] c = "#" -> NUMERO
      [] OTHER -> c

\* the characters of the literal s: the toggles dropped, every other character
\* read in the mode that the number of toggles before it gives
Decode(s) ==
    LET chars == StrChars(s)
        toggles == {i \in 1..Len(s) : chars[i] = "~"}
        cyr(i) == Cardinality({j \in toggles : j < i}) % 2 = 1
        marked == [i \in 1..Len(s) |->
                     <<IF cyr(i) THEN "~" \o chars[i] ELSE LatChar(chars[i]), i \notin toggles>>]
        sel == SelectSeq(marked, LAMBDA p : p[2])
    IN [i \in 1..Len(sel) |-> sel[i][1]]

T(s) == Decode(s)

CyrOf(s) == {"~" \o c : c \in Range(StrChars(s))}
UpperLatin == Range(StrChars(LatinUpper))
LowerLatin == Range(StrChars(LatinLower))
UpperCyr == CyrOf(CyrUpperCode)
LowerCyr == CyrOf(CyrLowerCode)
DigitChars == Range(StrChars(Digits))

\* str.lower() on one character
LowerMap ==
    [c \in UpperLatin \cup UpperCyr |->
        IF c \in UpperLatin
        THEN LET i == CHOOSE k \in 1..Len(LatinUpper) : SubSeq(LatinUpper, k, k) = c
             IN SubSeq(LatinLower, i, i)
        ELSE LET i == CHOOSE k \in 1..Len(CyrUpperCode) :
                          "~" \o SubSeq(CyrUpperCode, k, k) = c
             IN "~" \o SubSeq(CyrLowerCode, i, i)]

LowerChar(c) == IF c \in DOMAIN LowerMap THEN LowerMap[c] ELSE c

\* str.lower()
Lower(t) == [i \in 1..Len(t) |-> LowerChar(t[i])]

\* the characters \s matches and str.strip() removes
SpaceChars == {" ", "\n", "\t", "\r", "\f", NBSP}
IsSpace(c) == c \in SpaceChars
IsDigit(c) == c \in DigitChars

\* the characters of t at the indices in keep, in order
FilterIdx(t, keep) ==
    LET marked == [i \in 1..Len(t) |-> <<t[i], i \in keep>>]
        sel == SelectSeq(marked, LAMBDA p : p[2])
    IN [i \in 1..Len(sel) |-> sel[i][1]]

MinOf(S) == CHOOSE i \in S : \A j \in S : i <= j
MaxOf(S) == CHOOSE i \in S : \A j \in S : i >= j

NonSpace(t) == {i \in 1..Len(t) : ~IsSpace(t[i])}

\* str.lstrip()
LStrip(t) == IF NonSpace(t) = {} THEN <<>> ELSE SubSeq(t, MinOf(NonSpace(t)), Len(t))

\* str.rstrip()
RStrip(t) == IF NonSpace(t) = {} THEN <<>> ELSE SubSeq(t, 1, MaxOf(NonSpace(t)))

\* str.strip()
Strip(t) == RStrip(LStrip(t))

\* needle in hay
Contains(hay, needle) ==
    \E i \in 0..(Len(hay) - Len(needle)) : SubSeq(hay, i + 1, i + Len(needle)) = needle

\* ' '.join(parts)
RECURSIVE JoinSp(_)
JoinSp(parts) ==
    IF Len(parts) = 0 THEN <<>>
    ELSE IF Len(parts) = 1 THEN parts[1]
    ELSE parts[1] \o <<" ">> \o JoinSp(Tail(parts))

-----------------------------------------------------------------------------
(* clean                                                                    *)

\* text.replace('\xa0',' ').replace('\n',' ').replace('\r',' ').replace('\t',' ')
ReplaceBreaks(t) ==
    [i \in 1..Len(t) |-> IF t[i] \in {NBSP, "\n", "\r", "\t"} THEN " " ELSE t[i]]

\* re.sub(r'\s+', ' ', text)
CollapseSpace(t) ==
    LET spaced == [i \in 1..Len(t) |-> IF IsSpace(t[i]) THEN " " ELSE t[i]]
        keep == {i \in 1..Len(t) : ~IsSpace(t[i]) \/ i = 1 \/ ~IsSpace(t[i - 1])}
    IN FilterIdx(spaced, keep)

clean_nostrip(text) ==
    IF Len(text) = 0 THEN <<>> ELSE LStrip(CollapseSpace(ReplaceBreaks(text)))

clean(text) ==
    IF Len(text) = 0 THEN <<>> ELSE Strip(CollapseSpace(ReplaceBreaks(text)))

-----------------------------------------------------------------------------
(* split_section_name_content                                               *)

\* the first index k >= i with t[k] not in the class P, Len(t) + 1 if there is
\* none: the end of a greedy P* starting at i
SpanEnd(t, i, P) ==
    LET stops == {k \in i..Len(t) : t[k] \notin P}
    IN IF stops # {} THEN MinOf(stops) ELSE IF i > Len(t) THEN i ELSE Len(t) + 1

\* t[i:i+len(word)] equals word, ignoring case (re.I); word is lower case
AtCI(t, i, word) ==
    /\ i + Len(word) - 1 <= Len(t)
    /\ Lower(SubSeq(t, i, i + Len(word) - 1)) = word

\* t[i:i+len(word)] equals word
At(t, i, word) ==
    /\ i + Len(word) - 1 <= Len(t)
    /\ SubSeq(t, i, i + Len(word) - 1) = word

OptChar(t, i, set) == IF i <= Len(t) /\ t[i] \in set THEN i + 1 ELSE i

PrefixWords == <<T("~razdel~"), T("~tema~"), T("~modul4~")>>

\* re.match(r"^((?:Раздел|Тема|Модуль)\s+\d+\.?\s*[:.]?\s*)", txt, re.I):
\* the length of the match, 0 if there is none
PrefixLen(txt) ==
    LET ws == {k \in 1..Len(PrefixWords) : AtCI(txt, 1, PrefixWords[k])} IN
    IF ws = {} THEN 0
    ELSE LET w == PrefixWords[CHOOSE k \in ws : \A j \in ws : k <= j]
             a == Len(w) + 1
             b == SpanEnd(txt, a, SpaceChars)
             c == SpanEnd(txt, b, DigitChars)
             d == OptChar(txt, c, {"."})
             e == SpanEnd(txt, d, SpaceChars)
             f == OptChar(txt, e, {":", "."})
             g == SpanEnd(txt, f, SpaceChars)
         IN IF b > a /\ c > b THEN g - 1 ELSE 0

\* [А-ЯA-Z]: the range А-Я does not hold Ё
SentenceUpper == (UpperCyr \ {"~!"}) \cup UpperLatin

\* re.search(r'(\.)(\s+)([А-ЯA-Z])', body).start(), -1 if there is no match
BoundaryAt(body, i) ==
    /\ body[i] = "."
    /\ LET j == SpanEnd(body, i + 1, SpaceChars)
       IN j > i + 1 /\ j <= Len(body) /\ body[j] \in SentenceUpper

FirstBoundary(body) ==
    LET hits == {i \in 1..Len(body) : BoundaryAt(body, i)}
    IN IF hits = {} THEN -1 ELSE (CHOOSE i \in hits : \A j \in hits : i <= j) - 1

\* str.replace("..", "."): in every run of periods each pair, taken from the
\* left, becomes one period, so the periods at even offsets of the run remain
ReplaceDotDot(t) ==
    LET runStart(i) == MaxOf({j \in 1..i : j = 1 \/ t[j - 1] # "."})
        keep == {i \in 1..Len(t) : t[i] = "." => (i - runStart(i)) % 2 = 0}
    IN FilterIdx(t, keep)

MinSplitStart == 8
ShortTitleLen == 300
CutLen == 120

split_any_boundary(raw_text) ==
    LET txt == clean(raw_text)
        n == PrefixLen(txt)
        prefix == SubSeq(txt, 1, n)
        body == IF n > 0 THEN Strip(SubSeq(txt, n + 1, Len(txt))) ELSE txt
        dot_idx == FirstBoundary(body)
    IN IF Len(txt) = 0 THEN <<<<>>, <<>>>>
       ELSE IF dot_idx >= 0
       THEN <<ReplaceDotDot(Strip(prefix \o <<" ">> \o SubSeq(body, 1, dot_idx + 1))),
              Strip(SubSeq(body, dot_idx + 2, Len(body)))>>
       ELSE IF Len(txt) < ShortTitleLen THEN <<txt, <<>>>>
       ELSE <<SubSeq(txt, 1, CutLen) \o <<".", ".", ".">>, SubSeq(txt, CutLen + 1, Len(txt))>>

split_section_name_content(raw_text) ==
    LET txt == clean(raw_text)
        n == PrefixLen(txt)
        prefix == SubSeq(txt, 1, n)
        body == IF n > 0 THEN Strip(SubSeq(txt, n + 1, Len(txt))) ELSE txt
        dot_idx == FirstBoundary(body)
    IN IF Len(txt) = 0 THEN <<<<>>, <<>>>>
       ELSE IF dot_idx >= 0 /\ dot_idx > MinSplitStart
       THEN <<ReplaceDotDot(Strip(prefix \o <<" ">> \o SubSeq(body, 1, dot_idx + 1))),
              Strip(SubSeq(body, dot_idx + 2, Len(body)))>>
       ELSE IF Len(txt) < ShortTitleLen THEN <<txt, <<>>>>
       ELSE <<SubSeq(txt, 1, CutLen) \o <<".", ".", ".">>, SubSeq(txt, CutLen + 1, Len(txt))>>

-----------------------------------------------------------------------------
(* is_header_row, is_skip_row                                               *)

\* sum(1 for w in words if w in text)
CountIn(words, text) == Cardinality({i \in 1..Len(words) : Contains(text, words[i])})

\* any(w in text for w in words)
AnyIn(words, text) == \E i \in 1..Len(words) : Contains(text, words[i])

header_words == <<
    T("~naimenovanie~"), T("~tema~"), T("~razdel~"), T("~soderjanie~"), T("~lekci~"),
    T("~praktiq~"), T("~laborator~"), T("~samost~"), T("~vsego~"), T("# ~p~/~p~"),
    T("~nomer~"), T("~qas3~"), T("~zan7ti7~") >>

HeaderThreshold == 2

is_header_row_3(cells_text) ==
    LET combined == Lower(JoinSp(cells_text))
    IN CountIn(header_words, combined) >= HeaderThreshold + 1

is_header_row(cells_text) ==
    LET combined == Lower(JoinSp(cells_text))
        matches == CountIn(header_words, combined)
    IN matches >= HeaderThreshold

skip_words == <<
    T("~itogo~"), T("~vsego~"), T("~zaqet~"), T("~5kzamen~"), T("~attestac~"),
    T("~promejutoq~"), T("~kontrol4n~"), T("~kursov~"), T("~itogo~ ~po~"), T("~semestr~") >>

SkipMinLen == 3

is_skip_row(cells_text) ==
    LET combined == Strip(Lower(JoinSp(cells_text)))
    IN IF Len(combined) = 0 \/ Len(combined) < SkipMinLen THEN TRUE
       ELSE AnyIn(skip_words, combined)

-----------------------------------------------------------------------------
(* classify_discipline                                                      *)

technical_keywords == <<
    T("~programmirovanie~"), T("~algoritm~"), T("~informatik~"), T("~matematik~"),
    T("~v3qislit~"), T("~komp46ter~"), T("~set4~"), T("~baz3~ ~dann3h~"), T("~razrabotk~"),
    T("~injener~"), T("~tehnolog~"), T("~mehanik~"), T("~5lektron~"), T("~avtomatiz~"),
    T("~robot~"), T("~iskusstvenn~"), T("~mawinn~"), T("~neyron~"), T("~kibernetik~"),
    T("~sistemn~"), T("~arhitektur~"), T("~mikroprocessor~"), T("~telekommunikac~"),
    T("~kriptograf~"), T("~blokqeyn~"), T("devops"), T("sql"), T("python"), T("java"),
    T("c++"), T("javascript"), T("web"), T("api"), T("frontend"), T("backend"),
    T("~fizik~"), T("~optik~"), T("~kvantov~"), T("~statistik~"),
    T("~teori7~ ~vero7tnost~"), T("~diskretn~"), T("~lineyn~ ~algebr~"),
    T("~differencial4n~"), T("~qislenn~ ~metod~") >>

humanitarian_keywords == <<
    T("~filosof~"), T("~istori~"), T("~literatur~"), T("~7z3k~"), T("~lingvistik~"),
    T("~kul4tur~"), T("~sociolog~"), T("~psiholog~"), T("~pedagogik~"), T("~pravo~"),
    T("~6risprudenc~"), T("~5konomik~"), T("~menedjment~"), T("~marketing~"),
    T("~upravlen~"), T("~politolog~"), T("~jurnalist~"), T("~filolog~"), T("~inostrann~"),
    T("~angliysk~"), T("~nemeck~"), T("~francuzsk~"), T("~perevod~"), T("~kommunikac~"),
    T("~5tik~"), T("~5stetik~"), T("~religioveden~"), T("~arheolog~"), T("~antropolog~"),
    T("~dokumentoveden~") >>

natural_keywords == <<
    T("~biolog~"), T("~himi~"), T("~5kolog~"), T("~geolog~"), T("~geograf~"),
    T("~astronom~"), T("~botanik~"), T("~zoolog~"), T("~genetik~"), T("~biohim~"),
    T("~mikrobiolog~"), T("~anatomi~"), T("~fiziolog~"), T("~paleontolog~"),
    T("~okeanolog~"), T("~meteorolog~"), T("~poqvoveden~"), T("~biofizik~"),
    T("~molekul7rn~"), T("~kletoqn~"), T("~organiqesk~"), T("~neorganiqesk~"),
    T("~analitiqesk~ ~him~"), T("~biotehnolog~") >>

\* f"{name} {description} {goals}".lower()
ClassifyText(name, description, goals) ==
    Lower(name \o <<" ">> \o description \o <<" ">> \o goals)

tech_score(text) == CountIn(technical_keywords, text)
hum_score(text) == CountIn(humanitarian_keywords, text)
nat_score(text) == CountIn(natural_keywords, text)

classify_discipline_strict(name, description, goals) ==
    LET text == ClassifyText(name, description, goals)
    IN IF tech_score(text) > hum_score(text) /\ tech_score(text) > nat_score(text)
       THEN "technical"
       ELSE IF hum_score(text) > nat_score(text) THEN "humanitarian"
       ELSE "natural_science"

classify_discipline(name, description, goals) ==
    LET text == ClassifyText(name, description, goals)
    IN IF tech_score(text) >= hum_score(text) /\ tech_score(text) >= nat_score(text)
       THEN "technical"
       ELSE IF hum_score(text) >= nat_score(text) THEN "humanitarian"
       ELSE "natural_science"

-----------------------------------------------------------------------------
(* LiteratureParser: numbering markers and _merge                           *)

MaxNumDigits == 3

\* one pattern of NUMBERING_RE matched at the start of t: ^\s*, an opening
\* character or none, \d{1,3}, a closing character, then \s+ (needSpace) or \s*
NumPattern(t, open, close, needSpace) ==
    LET a == SpanEnd(t, 1, SpaceChars)
        b == IF open = "" THEN a ELSE OptChar(t, a, {open})
        c == SpanEnd(t, b, DigitChars)
        d == OptChar(t, c, {close})
        e == SpanEnd(t, d, SpaceChars)
        ok == /\ (open # "" => b > a)
              /\ c - b >= 1 /\ c - b <= MaxNumDigits
              /\ d > c
              /\ (needSpace => e > d)
    IN [found |-> ok, number |-> SubSeq(t, b, c - 1), end |-> e - 1]

NoMatch == [found |-> FALSE, number |-> <<>>, end |-> 0]

\* the first pattern of NUMBERING_RE that matches t
NUMBERING_RE_dot_only(t) ==
    IF NumPattern(t, "", ".", TRUE).found THEN NumPattern(t, "", ".", TRUE) ELSE NoMatch

NUMBERING_RE(t) ==
    IF NumPattern(t, "", ".", TRUE).found THEN NumPattern(t, "", ".", TRUE)
    ELSE IF NumPattern(t, "[", "]", FALSE).found THEN NumPattern(t, "[", "]", FALSE)
    ELSE IF NumPattern(t, "", ")", TRUE).found THEN NumPattern(t, "", ")", TRUE)
    ELSE NoMatch

_starts_num(t) == IF NUMBERING_RE(t).found THEN NUMBERING_RE(t).number ELSE None

\* the loop of _merge over lines[i..], with the entries merged so far and the
\* current entry
RECURSIVE MergeLoop(_, _, _, _)
MergeLoop(lines, i, merged, cur) ==
    IF i > Len(lines)
    THEN IF Len(cur) > 0 THEN Append(merged, cur) ELSE merged
    ELSE LET s == Strip(lines[i]) IN
         IF Len(s) = 0 THEN MergeLoop(lines, i + 1, merged, cur)
         ELSE IF _starts_num(s) # None
         THEN MergeLoop(lines, i + 1, IF Len(cur) > 0 THEN Append(merged, cur) ELSE merged, s)
         ELSE MergeLoop(lines, i + 1, merged, RStrip(cur) \o <<" ">> \o s)

_merge(lines) ==
    IF Len(lines) = 0 THEN <<>> ELSE MergeLoop(lines, 2, <<>>, Strip(lines[1]))

-----------------------------------------------------------------------------
(* LiteratureParser._parse_entry                                            *)

Letters == UpperLatin \cup LowerLatin \cup UpperCyr \cup LowerCyr
\* \w
WordChars == Letters \cup DigitChars
NameUpper == UpperLatin \cup UpperCyr
NameLower == LowerLatin \cup LowerCyr
Dashes == {ENDASH, EMDASH}

\* text[i:]
From(t, i) == SubSeq(t, i, Len(t))

\* str.strip(chars), str.rstrip(chars)
StripChars(t, chars) ==
    LET kept == {i \in 1..Len(t) : t[i] \notin chars}
    IN IF kept = {} THEN <<>> ELSE SubSeq(t, MinOf(kept), MaxOf(kept))
RStripChars(t, chars) ==
    LET kept == {i \in 1..Len(t) : t[i] \notin chars}
    IN IF kept = {} THEN <<>> ELSE SubSeq(t, 1, MaxOf(kept))

\* the group of the leftmost match, given for every start index where the
\* pattern matches the end of its group; <<>> if it matches nowhere
Leftmost(t, starts, groupOf(_)) == IF starts = {} THEN <<>> ELSE groupOf(MinOf(starts))

\* re.search(r'(https?://[^\s,;)]+)', text)
UrlStop == SpaceChars \cup {",", ";", ")"}
UrlBody(t, i) ==
    IF At(t, i, T("https://")) THEN i + 8
    ELSE IF At(t, i, T("http://")) THEN i + 7 ELSE 0
UrlSearch(t) ==
    LET starts == {i \in 1..Len(t) :
                     UrlBody(t, i) > 0 /\ UrlBody(t, i) <= Len(t) /\ t[UrlBody(t, i)] \notin UrlStop}
        group(i) == LET stops == {j \in UrlBody(t, i)..Len(t) : t[j] \in UrlStop}
                    IN SubSeq(t, i, IF stops = {} THEN Len(t) ELSE MinOf(stops) - 1)
    IN Leftmost(t, starts, group)

MinDoiDigits == 4

\* re.search(r'(?:doi:\s*)(10\.\d{4,}/[^\s,;]+)', text, re.I)
DoiStop == SpaceChars \cup {",", ";"}
DoiSearch(t) ==
    LET g(i) == SpanEnd(t, i + 4, SpaceChars)
        d(i) == SpanEnd(t, g(i) + 3, DigitChars)
        starts == {i \in 1..Len(t) :
                     /\ AtCI(t, i, T("doi:"))
                     /\ At(t, g(i), T("10."))
                     /\ d(i) - (g(i) + 3) >= MinDoiDigits
                     /\ d(i) + 1 <= Len(t) /\ t[d(i)] = "/" /\ t[d(i) + 1] \notin DoiStop}
        group(i) == LET stops == {j \in (d(i) + 1)..Len(t) : t[j] \in DoiStop}
                    IN SubSeq(t, g(i), IF stops = {} THEN Len(t) ELSE MinOf(stops) - 1)
    IN Leftmost(t, starts, group)

\* re.search(r'ISBN[\s:-]*([\d\-Xx ]+)', text): [\s:-]* is greedy and gives
\* characters back until the group can take at least one
IsbnSep == SpaceChars \cup {":", "-"}
IsbnChars == DigitChars \cup {"-", "X", "x", " "}
IsbnSearch(t) ==
    LET b(i) == SpanEnd(t, i + 4, IsbnSep)
        groupStarts(i) == {k \in (i + 4)..b(i) : k <= Len(t) /\ t[k] \in IsbnChars}
        starts == {i \in 1..Len(t) : At(t, i, T("ISBN")) /\ groupStarts(i) # {}}
        group(i) == LET k == MaxOf(groupStarts(i))
                    IN SubSeq(t, k, SpanEnd(t, k, IsbnChars) - 1)
    IN [found |-> starts # {}, group |-> Leftmost(t, starts, group)]

\* re.search(r'((?:19[5-9]|20[0-3])\d)', text)
YearAt(t, i) ==
    /\ i + 3 <= Len(t)
    /\ \/ t[i] = "1" /\ t[i + 1] = "9" /\ t[i + 2] \in {"5", "6", "7", "8", "9"}
       \/ t[i] = "2" /\ t[i + 1] = "0" /\ t[i + 2] \in {"0", "1", "2", "3"}
    /\ IsDigit(t[i + 3])
YearSearch_to_2029(t) ==
    Leftmost(t, {i \in 1..Len(t) : YearAt(t, i) /\ ~At(t, i, T("203"))},
             LAMBDA i : SubSeq(t, i, i + 3))

YearSearch(t) ==
    Leftmost(t, {i \in 1..Len(t) : YearAt(t, i)}, LAMBDA i : SubSeq(t, i, i + 3))

\* re.search(r'[–—-]\s*(\d+)\s*[сcСC]\b\.?', text)
PageLetters == {"~s", "c", "~S", "C"}
PagesSearch(t) ==
    LET a(i) == SpanEnd(t, i + 1, SpaceChars)
        b(i) == SpanEnd(t, a(i), DigitChars)
        c(i) == SpanEnd(t, b(i), SpaceChars)
        starts == {i \in 1..Len(t) :
                     /\ t[i] \in Dashes \cup {"-"}
                     /\ b(i) > a(i)
                     /\ c(i) <= Len(t) /\ t[c(i)] \in PageLetters
                     /\ (c(i) = Len(t) \/ t[c(i) + 1] \notin WordChars)}
    IN Leftmost(t, starts, LAMBDA i : SubSeq(t, a(i), b(i) - 1))

\* re.search(r'ЭБС|электронн\w+.библиотечн|Znanium|Лань|Юрайт|IPRbooks', text, re.I)
EbsNames == <<T("~5bs~"), T("znanium"), T("~lan4~"), T("~6rayt~"), T("iprbooks")>>
ElectronicLibrary(tl) ==
    \E i \in 1..Len(tl) :
        /\ At(tl, i, T("~5lektronn~"))
        /\ \E j \in (i + 10)..SpanEnd(tl, i + 9, WordChars) :
               j <= Len(tl) /\ tl[j] # "\n" /\ At(tl, j + 1, T("~biblioteqn~"))
IsEbs(text) == AnyIn(EbsNames, Lower(text)) \/ ElectronicLibrary(Lower(text))

\* re.search(r'учебник|пособие|монограф', tl)
BookWords == <<T("~uqebnik~"), T("~posobie~"), T("~monograf~")>>

\* re.search(r'ГОСТ|стандарт|СНиП|СП\s+\d', text, re.I)
StandardNames == <<T("~gost~"), T("~standart~"), T("~snip~")>>
IsStandard(text) ==
    LET tl == Lower(text) IN
    \/ AnyIn(StandardNames, tl)
    \/ \E i \in 1..Len(tl) :
          /\ At(tl, i, T("~sp~"))
          /\ LET j == SpanEnd(tl, i + 2, SpaceChars)
             IN j > i + 2 /\ j <= Len(tl) /\ IsDigit(tl[j])

EntryType_article_first(text, url) ==
    IF IsEbs(text) THEN "ebs"
    ELSE IF Contains(text, <<"/", "/">>) THEN "article"
    ELSE IF url # <<>> /\ ~AnyIn(BookWords, Lower(text)) THEN "web"
    ELSE IF IsStandard(text) THEN "standard"
    ELSE "book"

\* the if / elif chain that sets entry_type
EntryType(text, url) ==
    IF IsEbs(text) THEN "ebs"
    ELSE IF url # <<>> /\ ~AnyIn(BookWords, Lower(text)) THEN "web"
    ELSE IF Contains(text, <<"/", "/">>) THEN "article"
    ELSE IF IsStandard(text) THEN "standard"
    ELSE "book"

\* the end (exclusive) of a match of an author pattern at i, 0 if none:
\* form "A" is  [А-ЯЁA-Z][а-яёa-z]+,?\s+[А-ЯЁA-Z]\.(?:\s*[А-ЯЁA-Z]\.)?
\* form "B" is  [А-ЯЁA-Z]\.(?:\s*[А-ЯЁA-Z]\.)?\s*[А-ЯЁA-Z][а-яёa-z]+
IsInitial(t, i) == i + 1 <= Len(t) /\ t[i] \in NameUpper /\ t[i + 1] = "."
SecondInitial(t, i) ==
    LET j == SpanEnd(t, i, SpaceChars) IN IF IsInitial(t, j) THEN j + 2 ELSE i
AuthorEnd(t, i, form) ==
    IF form = "A"
    THEN LET l == SpanEnd(t, i + 1, NameLower)
             c == OptChar(t, l, {","})
             sp == SpanEnd(t, c, SpaceChars)
         IN IF t[i] \in NameUpper /\ l > i + 1 /\ sp > c /\ IsInitial(t, sp)
            THEN SecondInitial(t, sp + 2) ELSE 0
    ELSE LET g == SecondInitial(t, i + 2)
             sp == SpanEnd(t, g, SpaceChars)
             l == SpanEnd(t, sp + 1, NameLower)
         IN IF IsInitial(t, i) /\ sp <= Len(t) /\ t[sp] \in NameUpper /\ l > sp + 1
            THEN l ELSE 0

\* re.findall(pattern, text): the matches from index i on, left to right,
\* not overlapping
RECURSIVE FindAuthors(_, _, _)
FindAuthors(t, i, form) ==
    LET starts == {j \in i..Len(t) : AuthorEnd(t, j, form) > 0} IN
    IF starts = {} THEN <<>>
    ELSE LET j == MinOf(starts)
         IN <<SubSeq(t, j, AuthorEnd(t, j, form) - 1)>> \o FindAuthors(t, AuthorEnd(t, j, form), form)

\* the loop over the matches: clean(a), kept once, in order of appearance
RECURSIVE DedupClean(_, _)
DedupClean(found, kept) ==
    IF Len(found) = 0 THEN kept
    ELSE LET n == clean(Head(found))
         IN DedupClean(Tail(found), IF n \in Range(kept) THEN kept ELSE Append(kept, n))

MaxAuthors == 10
StrippedAuthors == 2

\* e.authors[:10]
FirstAuthors(all) == SubSeq(all, 1, IF Len(all) < MaxAuthors THEN Len(all) ELSE MaxAuthors)

\* "if not authors:" the second pattern is tried
AuthorsFound(a, text) == IF Len(a) = 0 THEN FindAuthors(text, 1, "B") ELSE a

Authors(text) ==
    FirstAuthors(DedupClean(AuthorsFound(FindAuthors(text, 1, "A"), text), <<>>))

\* str.replace(a, '', 1)
ReplaceFirst(t, a) ==
    LET hits == {i \in 1..Len(t) : At(t, i, a)} IN
    IF hits = {} \/ Len(a) = 0 THEN t
    ELSE SubSeq(t, 1, MinOf(hits) - 1) \o From(t, MinOf(hits) + Len(a))

RECURSIVE RemoveAuthors(_, _)
RemoveAuthors(t, authors) ==
    IF Len(authors) = 0 THEN t
    ELSE RemoveAuthors(ReplaceFirst(t, Head(authors)), Tail(authors))

Remaining(text, authors) ==
    StripChars(
        RemoveAuthors(text, SubSeq(authors, 1,
            IF Len(authors) < StrippedAuthors THEN Len(authors) ELSE StrippedAuthors)),
        {" ", ",", ".", ":", ";", "/"})

\* re.split(r'\s+[–—]\s+', remaining, maxsplit=1)
DashSplit(t) ==
    LET dash(i) == SpanEnd(t, i, SpaceChars)
        rest(i) == SpanEnd(t, dash(i) + 1, SpaceChars)
        starts == {i \in 1..Len(t) :
                     /\ IsSpace(t[i])
                     /\ dash(i) <= Len(t) /\ t[dash(i)] \in Dashes
                     /\ rest(i) > dash(i) + 1}
    IN IF starts = {} THEN <<t>>
       ELSE <<SubSeq(t, 1, MinOf(starts) - 1), From(t, rest(MinOf(starts)))>>

MinTitleLen == 5
MaxTitleLen == 200

\* title and publisher from the text left after the authors are removed
\* remaining.split('//', 1) with title_cand = parts[0].strip(' .,;:/')
SlashSplit(remaining, slash, title_cand) ==
    [title |-> IF Len(title_cand) > MinTitleLen THEN title_cand ELSE <<>>,
     publisher |-> clean(From(remaining, slash + 2))]

\* dp = re.split(r'\s+[–—]\s+', remaining, maxsplit=1)
DashTitle(remaining, dp) ==
    IF Len(dp) >= 2
    THEN [title |-> IF Len(dp[1]) > MinTitleLen
                    THEN StripChars(dp[1], {" ", ".", ",", ";", ":"}) ELSE <<>>,
          publisher |-> clean(dp[2])]
    ELSE [title |-> SubSeq(remaining, 1,
                        IF Len(remaining) < MaxTitleLen THEN Len(remaining) ELSE MaxTitleLen),
          publisher |-> <<>>]

Slashes(remaining) == {i \in 1..Len(remaining) : At(remaining, i, <<"/", "/">>)}

TitlePublisher(remaining) ==
    IF Slashes(remaining) # {}
    THEN SlashSplit(remaining, MinOf(Slashes(remaining)),
                    StripChars(SubSeq(remaining, 1, MinOf(Slashes(remaining)) - 1),
                               {" ", ".", ",", ";", ":", "/"}))
    ELSE DashTitle(remaining, DashSplit(remaining))

\* " с."
PageSuffix == T(" ~s~.")

LiteratureEntry_no_raw(raw) ==
    [raw |-> <<>>, number |-> None, authors |-> <<>>, title |-> <<>>, year |-> None,
     publisher |-> <<>>, pages |-> <<>>, url |-> <<>>, doi |-> <<>>, isbn |-> <<>>,
     entry_type |-> "unknown"]

\* LiteratureEntry(raw=raw): the other fields at their defaults
LiteratureEntry(raw) ==
    [raw |-> raw, number |-> None, authors |-> <<>>, title |-> <<>>, year |-> None,
     publisher |-> <<>>, pages |-> <<>>, url |-> <<>>, doi |-> <<>>, isbn |-> <<>>,
     entry_type |-> "unknown"]

\* the fields of the entry, from the matches in the text after the number
ParsedEntry(raw, num, text, url, isbn, pg, authors, tp) ==
    [LiteratureEntry(raw) EXCEPT
        !.number = IF num.found THEN num.number ELSE @,
        !.url = url,
        !.doi = RStripChars(DoiSearch(text), {".", ",", ":", ";"}),
        !.isbn = IF isbn.found THEN Strip(isbn.group) ELSE @,
        !.year = YearSearch(text),
        !.pages = IF pg = <<>> THEN @ ELSE pg \o PageSuffix,
        !.entry_type = EntryType(text, url),
        !.authors = authors,
        !.title = tp.title,
        !.publisher = tp.publisher]

ParsedAuthors(raw, num, text, authors) ==
    ParsedEntry(raw, num, text, RStripChars(UrlSearch(text), {".", ",", ":", ";"}),
                IsbnSearch(text), PagesSearch(text), authors,
                TitlePublisher(Remaining(text, authors)))

\* text = text[m.end():] after the number, then text.strip()
ParsedText(raw, num, text) == ParsedAuthors(raw, num, text, Authors(text))

ParsedNumber(raw, num) ==
    ParsedText(raw, num, Strip(IF num.found THEN From(raw, num.end + 1) ELSE raw))

_parse_entry(raw) == ParsedNumber(raw, NUMBERING_RE(raw))

-----------------------------------------------------------------------------
(* LiteratureParser: headers, _flush, extract_from_paragraphs,              *)
(* extract_from_text, extract_from_tables, and the literature block of      *)
(* parse_docx_structural                                                    *)

\* stems[1]\w*\s*stems[2]\w*\s*... matches t at position i, ignoring case
RECURSIVE StemsAt(_, _, _)
StemsAt(t, i, stems) ==
    /\ AtCI(t, i, stems[1])
    /\ IF Len(stems) = 1 THEN TRUE
       ELSE LET a == i + Len(stems[1]) IN
            \E j \in a..SpanEnd(t, a, WordChars) :
                \E k \in j..SpanEnd(t, j, SpaceChars) : StemsAt(t, k, Tail(stems))

StemsSearch(t, stems) == \E i \in 1..Len(t) : StemsAt(t, i, stems)

\* re.search(r'4\.1[\.\s]', t) and the like
NumberedSearch(t, num) ==
    \E i \in 1..Len(t) :
        At(t, i, num) /\ i + Len(num) <= Len(t) /\ t[i + Len(num)] \in SpaceChars \cup {"."}

MainStems == <<<<T("~osnovn~"), T("~literatur~")>>,
               <<T("~osnovn~"), T("~uqebn~"), T("~literatur~")>>,
               <<T("~ob7zatel4n~"), T("~literatur~")>>>>
MainNumber == T("4.1")
AdditionalStems == <<<<T("~dopolnitel4n~"), T("~literatur~")>>,
                     <<T("~dopolnitel4n~"), T("~uqebn~"), T("~literatur~")>>>>
AdditionalNumber == T("4.2")

MAIN_LIT_HEADERS(t) ==
    \/ \E k \in 1..Len(MainStems) : StemsSearch(t, MainStems[k])
    \/ NumberedSearch(t, MainNumber)

ADDITIONAL_LIT_HEADERS(t) ==
    \/ \E k \in 1..Len(AdditionalStems) : StemsSearch(t, AdditionalStems[k])
    \/ NumberedSearch(t, AdditionalNumber)

_is_main(t) == MAIN_LIT_HEADERS(t)
_is_add(t) == ADDITIONAL_LIT_HEADERS(t)

StopNumbers == <<T("5."), T("4.3"), T("6."), T("3.")>>
StopPhrases == <<<<T("~pereqen4~"), T("~resursov~")>>,
                 <<T("~pereqen4~"), T("~programmnogo~")>>,
                 <<T("~pereqen4~"), T("~informacion~")>>,
                 <<T("~material4no~")>>,
                 <<T("~metodiqeskie~"), T("~ukazani7~")>>,
                 <<T("~ocenoqn3e~"), T("~sredstva~")>>>>

\* word \s+ word at the start of t, ignoring case
PhraseAtStart(t, words) ==
    /\ AtCI(t, 1, words[1])
    /\ IF Len(words) = 1 THEN TRUE
       ELSE LET a == Len(words[1]) + 1
                b == SpanEnd(t, a, SpaceChars)
            IN b > a /\ AtCI(t, b, words[2])

STOP_HEADERS(t) ==
    \/ \E k \in 1..Len(StopNumbers) : At(t, 1, StopNumbers[k])
    \/ \E k \in 1..Len(StopPhrases) : PhraseAtStart(t, StopPhrases[k])

_is_stop(t) == STOP_HEADERS(t)

\* the least length of the raw text of an entry of _flush
MinRawLen == 10

\* _flush(lines, target): target after the call
\* "if len(raw) < 10: continue", else the entry is appended
Flushed(raw, target) ==
    IF Len(raw) < MinRawLen THEN target ELSE Append(target, _parse_entry(raw))

RECURSIVE FlushLoop(_, _, _)
FlushLoop(merged, i, target) ==
    IF i > Len(merged) THEN target
    ELSE FlushLoop(merged, i + 1, Flushed(clean(merged[i]), target))

_flush(lines, target) == FlushLoop(_merge(lines), 1, target)

LiteratureList == [main |-> <<>>, additional |-> <<>>]

\* the flush of the buffer into the list of the current state, as every
\* "if state == 'main' and buf: ... elif state == 'additional' and buf: ..."
Flushing(res, st, target) ==
    IF st = "main" THEN [res EXCEPT !.main = target] ELSE [res EXCEPT !.additional = target]

FlushInto_other(res, st, lines, lists) ==
    IF st \in lists /\ Len(lines) > 0
    THEN Flushing(res, IF st = "main" THEN "additional" ELSE "main",
                  _flush(lines, IF st = "main" THEN res.additional ELSE res.main))
    ELSE res

FlushInto(res, st, lines, lists) ==
    IF st \in lists /\ Len(lines) > 0
    THEN Flushing(res, st, _flush(lines, IF st = "main" THEN res.main ELSE res.additional))
    ELSE res

\* the least length of a line that is collected
MinLineLen == 3

\* text.split('\n')
SplitLines(text) ==
    LET nl == {i \in 1..Len(text) : text[i] = "\n"}
        cut(k) == IF k = 0 THEN 0
                  ELSE IF k > Cardinality(nl) THEN Len(text) + 1
                  ELSE CHOOSE i \in nl : Cardinality({j \in nl : j <= i}) = k
    IN [k \in 1..(Cardinality(nl) + 1) |-> SubSeq(text, cut(k - 1) + 1, cut(k) - 1)]

\* '\n'.join(lines)
RECURSIVE JoinLines(_)
JoinLines(lines) ==
    IF Len(lines) = 0 THEN <<>>
    ELSE IF Len(lines) = 1 THEN lines[1]
    ELSE lines[1] \o <<"\n">> \o JoinLines(Tail(lines))

\* re.search(r'автор|название|наименование|библиограф|источник', header)
SourceColumns == <<T("~avtor~"), T("~nazvanie~"), T("~naimenovanie~"), T("~bibliograf~"), T("~istoqnik~")>>

\* the first longest cell: max(cells, key=len)
Longest(cells) ==
    cells[MinOf({i \in 1..Len(cells) : \A j \in 1..Len(cells) : Len(cells[j]) <= Len(cells[i])})]

\* the least length, exclusive, of the text of a table row that is an entry
MinRowLen == 10
MinCellLen == 3

\* the rows table[i..] of one literature table appended to target
\* ' '.join(c for c in cells if len(c) > 2)
Combined(cells) == JoinSp(SelectSeq(cells, LAMBDA c : Len(c) > MinCellLen - 1))

\* one row of a literature table: target with its entry, if it makes one
TableRow(cells, longest, combined, target) ==
    IF \A c \in 1..Len(cells) : Len(cells[c]) < MinCellLen THEN target
    ELSE IF Len(longest) > MinRowLen \/ Len(combined) > MinRowLen
    THEN Append(target, _parse_entry(IF Len(longest) > MinRowLen THEN longest ELSE combined))
    ELSE target

CleanCells(row) == [c \in 1..Len(row) |-> clean(row[c])]

\* for row in table.rows[1:]: the rows from the i-th on
RECURSIVE TableRows(_, _, _)
TableRows(rows, i, target) ==
    IF i > Len(rows) THEN target
    ELSE TableRows(rows, i + 1,
                   TableRow(CleanCells(rows[i]),
                            IF Len(rows[i]) = 0 THEN <<>> ELSE Longest(CleanCells(rows[i])),
                            Combined(CleanCells(rows[i])), target))

\* extract_from_tables over tables[i..]; a table is a sequence of rows, a
\* row a sequence of cell texts
\* one table with the lower-case text of its header row: res with its entries
Table(rows, header, is_main, res) ==
    IF ~is_main /\ ~ADDITIONAL_LIT_HEADERS(header) /\ ~AnyIn(SourceColumns, header) THEN res
    ELSE Flushing(res, IF is_main THEN "main" ELSE "additional",
                  TableRows(rows, 2, IF is_main THEN res.main ELSE res.additional))

TableHeader(rows) == Lower(JoinSp(CleanCells(rows[1])))

RECURSIVE TablesLoop(_, _, _)
TablesLoop(tables, i, res) ==
    IF i > Len(tables) THEN res
    ELSE IF Len(tables[i]) < 2 THEN TablesLoop(tables, i + 1, res)
    ELSE TablesLoop(tables, i + 1,
                    Table(tables[i], TableHeader(tables[i]),
                          MAIN_LIT_HEADERS(TableHeader(tables[i])), res))

extract_from_tables(tables) == TablesLoop(tables, 1, LiteratureList)

\* re.match(r"^\d+\.", t)
StartsNumbered(t) ==
    LET e == SpanEnd(t, 1, DigitChars) IN e > 1 /\ e <= Len(t) /\ t[e] = "."

LegacyStops == <<T("6."), T("5.3"), T("3."), T("2."), T("5.")>>

\* the least length, exclusive, of an entry of the 4.1 / 4.2 fallback
MinLegacyLen == 10

\* the 4.1 / 4.2 fallback loop of parse_docx_structural over paragraphs[i..]
\* the state of the fallback after the paragraph t
LegacyState(t, st) ==
    IF At(t, 1, MainNumber) THEN "lit_main"
    ELSE IF At(t, 1, AdditionalNumber) THEN "lit_add"
    ELSE IF \E k \in 1..Len(LegacyStops) : At(t, 1, LegacyStops[k]) THEN "None"
    ELSE st

\* the lists of the fallback after the paragraph t: the else branch
LegacyEntry(t, st, res) ==
    IF LegacyState(t, "else") = "else" /\ st \in {"lit_main", "lit_add"}
          /\ StartsNumbered(t) /\ Len(t) > MinLegacyLen
    THEN Flushing(res, IF st = "lit_main" THEN "main" ELSE "additional",
                  Append(IF st = "lit_main" THEN res.main ELSE res.additional, _parse_entry(t)))
    ELSE res

\* the 4.1 / 4.2 fallback loop of parse_docx_structural over paragraphs[i..]
RECURSIVE LegacyLoop(_, _, _, _)
LegacyLoop(paragraphs, i, st, res) ==
    IF i > Len(paragraphs) THEN res
    ELSE LegacyLoop(paragraphs, i + 1, LegacyState(clean(paragraphs[i]), st),
                    LegacyEntry(clean(paragraphs[i]), st, res))

-----------------------------------------------------------------------------
(* SoftwareMatcher.match, and the software lists of the two parsers         *)

\* a section: SectionDetail without its hours, which match does not read
HoursDetail == [lectures |-> <<"0">>, practice |-> <<"0">>, labs |-> <<"0">>, self_study |-> <<"0">>]

SectionDetail(name, content) ==
    [name |-> name, content |-> content, hours |-> HoursDetail, linked_software |-> <<>>]

\* DisciplineData(): every field at its default
DisciplineData ==
    [name |-> T("~Bez~ ~nazvani7~"), direction |-> <<>>, edu_program |-> <<>>, edu_level |-> <<>>,
     period |-> <<"-">>, volume |-> <<"-">>, volume_details |-> <<>>, goals |-> <<>>,
     description |-> <<>>, category |-> "technical",
     sections |-> <<>>, outcomes |-> <<>>, software |-> <<>>, literature |-> LiteratureList]

TOOL_KEYWORDS == <<
    [tool |-> T("python"),
     kws |-> <<T("python"), T("~piton~"), T("django"), T("flask"), T("numpy"), T("pandas"), T("matplotlib"), T("scipy"), T("jupyter"), T("notebook")>>],
    [tool |-> T("java"),
     kws |-> <<T("java"), T("jdk"), T("jvm"), T("spring"), T("maven"), T("gradle")>>],
    [tool |-> T("c++"),
     kws |-> <<T("c++"), T("cpp"), T("stl"), T("~wablon~"), T("template")>>],
    [tool |-> T("javascript"),
     kws |-> <<T("javascript"), T("js"), T("node"), T("react"), T("angular"), T("vue"), T("typescript")>>],
    [tool |-> T("matlab"),
     kws |-> <<T("matlab"), T("~matlab~"), T("simulink"), T("~modelirovan~")>>],
    [tool |-> T("visual studio"),
     kws |-> <<T("visual studio"), T("vs code"), T("vscode"), T("~otladka~"), T("debug"), T("ide")>>],
    [tool |-> T("mysql"),
     kws |-> <<T("mysql"), T("sql"), T("~baza~ ~dann3h~"), T("~bd~"), T("~zapros~"), T("~tablic~")>>],
    [tool |-> T("postgresql"),
     kws |-> <<T("postgresql"), T("postgres")>>],
    [tool |-> T("git"),
     kws |-> <<T("git"), T("github"), T("gitlab"), T("~version~"), T("~repozitor~")>>],
    [tool |-> T("docker"),
     kws |-> <<T("docker"), T("~konteyner~"), T("~virtualizac~")>>],
    [tool |-> T("linux"),
     kws |-> <<T("linux"), T("ubuntu"), T("~terminal~"), T("bash"), T("~komandn~ ~strok~")>>],
    [tool |-> T("latex"),
     kws |-> <<T("latex"), T("tex"), T("~nabor~ ~tekst~"), T("~verstk~")>>],
    [tool |-> T("microsoft office"),
     kws |-> <<T("office"), T("word"), T("excel"), T("powerpoint")>>] >>

\* the keywords of the tool are taken: the tool's name in the software name
\* or the other way round, or one of its keywords in the software name
ToolApplies(tk, sw_lower) ==
    \/ Contains(sw_lower, tk.tool)
    \/ Contains(tk.tool, sw_lower)
    \/ \E k \in 1..Len(tk.kws) : Contains(sw_lower, tk.kws[k])

PartSeparators == SpaceChars \cup {",", ";", "/", "\\", "(", ")", "-"}

\* re.split(r'[\s,;/\\()\-]+', sw_lower): the parts that are not empty
SplitParts(t) ==
    {SubSeq(t, r[1], r[2]) : r \in
        {<<a, b>> \in (1..Len(t)) \X (1..Len(t)) :
            /\ a <= b
            /\ \A k \in a..b : t[k] \notin PartSeparators
            /\ (a = 1 \/ t[a - 1] \in PartSeparators)
            /\ (b = Len(t) \/ t[b + 1] \in PartSeparators)}}

\* a part of the name is a keyword when it has more than 2 characters, and
\* a keyword counts when it has 3 and more
MinPartLen == 2
MinKeywordLen == 3

\* sw_keywords[idx], as a set, of the software name sw_lower
Keywords(sw_lower) ==
    UNION {Range(TOOL_KEYWORDS[k].kws) :
              k \in {n \in 1..Len(TOOL_KEYWORDS) : ToolApplies(TOOL_KEYWORDS[n], sw_lower)}}
        \cup {sw_lower}
        \cup {part \in SplitParts(sw_lower) : Len(part) > MinPartLen}

sw_keywords(sw) == Keywords(Strip(Lower(sw)))

\* section_text = f"{section.name} {section.content}".lower()
section_text(section) == Lower(section.name \o <<" ">> \o section.content)

\* 2 for every keyword of 3 characters and more that is in the text
KeywordScore == 2
score(sw, text) ==
    KeywordScore * Cardinality({kw \in sw_keywords(sw) : Len(kw) >= MinKeywordLen /\ Contains(text, kw)})

MinScore == 2

\* matched, the set of the software names that score 2 and more
matched(text, software) == {sw \in Range(software) : score(sw, text) >= MinScore}

\* hash(sw) of a str: some integer, negative or not, that the seed of the
\* process and the string determine
HashRange == 17
PyHash(seed, sw) ==
    (((Len(sw) + 1) * (2 * seed + 3) + seed * seed) % HashRange) - (HashRange \div 2)

hash_reseeded(sw) == PyHash(hashseed + Len(calls), sw)

hash(sw) == PyHash(hashseed, sw)

best_idx_first(sw, n) == 0

\* best_idx = hash(sw) % len(sections): Python's %, not negative
best_idx(sw, n) == hash(sw) % n

\* list(matched): the order of a set of str follows the hashes, and the
\* order of insertion where the slots of the table collide
SetSlots == 8
RECURSIVE ListOfSet(_, _)
ListOfSet(S, key) ==
    IF S = {} THEN <<>>
    ELSE LET m == CHOOSE x \in S : \A y \in S : key[x] <= key[y]
         IN <<m>> \o ListOfSet(S \ {m}, key)

FirstIndex(software, sw) == MinOf({i \in 1..Len(software) : software[i] = sw})

list(S, software) ==
    ListOfSet(S, [sw \in S |-> (hash(sw) % SetSlots) * (Len(software) + 1)
                                   + FirstIndex(software, sw)])

\* the loop over the sections: section.linked_software = list(matched)
Scored(sections, software) ==
    [i \in 1..Len(sections) |->
        [sections[i] EXCEPT
            !.linked_software = list(matched(section_text(sections[i]), software), software)]]

\* matched_sw, and unmatched in the order of the software list
matched_sw(sections) == UNION {Range(sections[i].linked_software) : i \in 1..Len(sections)}
unmatched(sections, software) == SelectSeq(software, LAMBDA sw : sw \notin matched_sw(sections))

append_unguarded(linked, sw) == Append(linked, sw)

\* if sw not in sections[best_idx].linked_software: append
append_new(linked, sw) == IF sw \in Range(linked) THEN linked ELSE Append(linked, sw)

\* the fallback loop over unmatched[i..]
RECURSIVE FallbackLoop(_, _, _)
FallbackLoop(sections, rest, i) ==
    IF i > Len(rest) THEN sections
    ELSE FallbackLoop(
            [sections EXCEPT ![best_idx(rest[i], Len(sections)) + 1].linked_software =
                                append_new(@, rest[i])],
            rest, i + 1)

Fallback(sections, software) == FallbackLoop(sections, unmatched(sections, software), 1)

match(sections, software) ==
    IF Len(software) = 0 \/ Len(sections) = 0 THEN sections
    ELSE Fallback(Scored(sections, software), software)

\* the software names a parser keeps have 2 to 150 characters (DOCX), more
\* than 3 (PDF)
MinSoftwareLen == 2
MaxSoftwareLen == 150
MinPdfSoftwareLen == 3

\* parse_docx_structural: all_sw[i..] without the names that are too short,
\* too long, or seen before in another letter case
RECURSIVE DedupSoftware(_, _, _)
DedupSoftware(all_sw, i, kept) ==
    IF i > Len(all_sw) THEN kept
    ELSE DedupSoftware(all_sw, i + 1,
            IF \/ Len(Strip(all_sw[i])) > MaxSoftwareLen
               \/ Len(Strip(all_sw[i])) < MinSoftwareLen
               \/ \E k \in 1..Len(kept) : Lower(kept[k]) = Lower(Strip(all_sw[i]))
            THEN kept ELSE Append(kept, Strip(all_sw[i])))

Bullets == {"-", ENDASH, EMDASH, "BULLET", "MIDDOT"}

\* re.sub(r'^\d+[\.\)]\s*', '', line.strip())
NoNumber(t) ==
    IF SpanEnd(t, 1, DigitChars) > 1 /\ SpanEnd(t, 1, DigitChars) <= Len(t)
          /\ t[SpanEnd(t, 1, DigitChars)] \in {".", ")"}
    THEN From(t, SpanEnd(t, SpanEnd(t, 1, DigitChars) + 1, SpaceChars))
    ELSE t

\* re.sub(r'^[-–—•·]\s*', '', t).strip().rstrip('.')
NoBullet(t) ==
    RStripChars(Strip(IF Len(t) > 0 /\ t[1] \in Bullets
                      THEN From(t, SpanEnd(t, 2, SpaceChars)) ELSE t), {"."})

skip_sw == <<T("~pereqen4~"), T("~programmnoe~ ~obespeqenie~"), T("~naimenovanie~"), T("# ~p~/~p~")>>

\* one line of the software block: "if cleaned_sw not in data.software:
\* data.software.append(clean(cleaned_sw))"
PdfLine(cleaned_sw, kept) ==
    IF Len(cleaned_sw) > MinPdfSoftwareLen /\ ~AnyIn(skip_sw, Lower(cleaned_sw))
          /\ cleaned_sw \notin Range(kept)
    THEN Append(kept, clean(cleaned_sw)) ELSE kept

\* parse_pdf_regex: the lines[i..] of the software block
RECURSIVE PdfSoftware(_, _, _)
PdfSoftware(lines, i, kept) ==
    IF i > Len(lines) THEN kept
    ELSE PdfSoftware(lines, i + 1, PdfLine(NoBullet(NoNumber(Strip(lines[i]))), kept))

-----------------------------------------------------------------------------
(* is_noise_text, and the section tables of parse_docx_structural           *)

NoiseMinLen == 5

NoisePrefixes == <<
    T("~utverjd~"), T("~soglasovan~"), T("~protokol~"), T("~rektor~"), T("~prorektor~"),
    T("~dekan~"), T("~zavedu6x~") >>

\* str.isdigit() on a str of ASCII characters
isdigit(t) == Len(t) > 0 /\ \A i \in 1..Len(t) : IsDigit(t[i])

\* re.match(word + r'\s+\d+', t, re.I), and with \s* when spaces is 0
NumberedWord(t, word, spaces) ==
    /\ AtCI(t, 1, word)
    /\ LET j == SpanEnd(t, Len(word) + 1, SpaceChars)
       IN j >= Len(word) + 1 + spaces /\ j <= Len(t) /\ IsDigit(t[j])

\* re.match(r'^стр\.?\s*\d+', t, re.I)
PageShort(t) ==
    \/ NumberedWord(t, T("~str~"), 0)
    \/ NumberedWord(t, T("~str~."), 0)

\* re.match(r'^-\s*\d+\s*-$', t)
PageDashes(t) ==
    /\ Len(t) > 0 /\ t[1] = "-"
    /\ LET j == SpanEnd(t, 2, SpaceChars)
           k == SpanEnd(t, j, DigitChars)
           m == SpanEnd(t, k, SpaceChars)
       IN k > j /\ m = Len(t) /\ t[m] = "-"

\* re.match(r'^зав\.\s*кафедр', t, re.I)
HeadOfChair(t) ==
    /\ AtCI(t, 1, T("~zav~."))
    /\ AtCI(t, SpanEnd(t, 5, SpaceChars), T("~kafedr~"))

is_noise_text(text) ==
    LET t == Strip(text)
    IN IF Len(t) < NoiseMinLen THEN TRUE
       ELSE \/ isdigit(t)
            \/ PageShort(t)
            \/ PageDashes(t)
            \/ NumberedWord(t, T("~list~"), 1)
            \/ NumberedWord(t, T("~stranica~"), 1)
            \/ \E i \in 1..Len(NoisePrefixes) : AtCI(t, 1, NoisePrefixes[i])
            \/ HeadOfChair(t)

\* a table cell is the text of its one paragraph
extract_cell_text(cell) == Strip(cell)

ScanRows == 8
MaxHourDigits == 3
MinHourColumns == 2

\* the columns (from 0) that hold a number of at most three digits in one of
\* the rows table.rows[1:8]
HourColumns(rows) ==
    {i - 1 : i \in UNION {
        {i \in DOMAIN rows[r] :
            isdigit(Strip(rows[r][i])) /\ Len(Strip(rows[r][i])) <= MaxHourDigits} :
        r \in {r \in 2..ScanRows : r <= Len(rows)}}}

\* hours_indices.sort()
Sorted(S) ==
    CHOOSE s \in [1..Cardinality(S) -> S] : \A i, j \in 1..Cardinality(S) : i < j => s[i] < s[j]

hours_indices(rows) == Sorted(HourColumns(rows))

\* a table with fewer than two rows or fewer than two hour columns holds no sections
IsSectionTable(rows) ==
    Len(rows) >= 2 /\ Cardinality(HourColumns(rows)) >= MinHourColumns

cells_text(cells) == [i \in 1..Len(cells) |-> clean(extract_cell_text(cells[i]))]

MinFirstCell == 2
LeadingColumns == 2
ShortLabelLen == 6
MinTopicLen == 5
MaxNameWords == 3
ShortNameLen == 30
MinNameLen == 3

\* len(t.split())
WordCount(t) ==
    Cardinality({i \in 1..Len(t) : ~IsSpace(t[i]) /\ (IF i = 1 THEN TRUE ELSE IsSpace(t[i - 1]))})

\* c.islower() for one character
islower(c) == c \in LowerLatin \cup LowerCyr

Topic(c0, split) == <<T("~Tema~ ") \o c0 \o <<" ">> \o split[1], split[2]>>

\* there is a second cell before the hour columns, and it is not empty
TwoCells(ct, first_hour_col) ==
    first_hour_col >= LeadingColumns /\ Len(ct) > 1 /\ Len(ct[2]) > 0
\* the first cell is a short label and the second holds the topic
LabelAndTopic(ct, first_hour_col) ==
    TwoCells(ct, first_hour_col) /\ Len(ct[1]) < ShortLabelLen /\ Len(ct[2]) > MinTopicLen
\* the cell that split_section_name_content is called on
SplitCell(ct, first_hour_col) == IF LabelAndTopic(ct, first_hour_col) THEN ct[2] ELSE ct[1]
Named(ct, first_hour_col, split) ==
    IF LabelAndTopic(ct, first_hour_col) THEN Topic(ct[1], split)
    ELSE IF TwoCells(ct, first_hour_col) THEN <<ct[1], ct[2]>>
    ELSE split

\* final_name and final_content before the correction
NameContent(ct, first_hour_col) ==
    Named(ct, first_hour_col, split_section_name_content(SplitCell(ct, first_hour_col)))

\* a short name followed by content that starts with a small letter
Correction(nc) ==
    IF /\ WordCount(nc[1]) < MaxNameWords /\ Len(nc[1]) < ShortNameLen
       /\ Len(nc[2]) > 0 /\ islower(nc[2][1])
    THEN <<nc[1] \o <<" ">> \o nc[2], <<>>>>
    ELSE nc

final_name_content(ct, first_hour_col) == Correction(NameContent(ct, first_hour_col))

HourValue(cell) == IF isdigit(Strip(cell)) THEN Strip(cell) ELSE <<"0">>

vals(ct, indices) ==
    LET within == SelectSeq(indices, LAMBDA idx : idx < Len(ct))
    IN [k \in 1..Len(within) |-> HourValue(ct[within[k] + 1])]

\* the third of exactly three values taken for labs
RowHours_three_as_labs(v) ==
    [lectures |-> IF Len(v) >= 1 THEN v[1] ELSE HoursDetail.lectures,
     practice |-> IF Len(v) >= 2 THEN v[2] ELSE HoursDetail.practice,
     labs |-> IF Len(v) >= 3 THEN v[3] ELSE HoursDetail.labs,
     self_study |-> IF Len(v) >= 4 THEN v[4] ELSE HoursDetail.self_study]
RowHours(v) ==
    [lectures |-> IF Len(v) >= 1 THEN v[1] ELSE HoursDetail.lectures,
     practice |-> IF Len(v) >= 2 THEN v[2] ELSE HoursDetail.practice,
     labs |-> IF Len(v) >= 4 THEN v[3] ELSE HoursDetail.labs,
     self_study |-> IF Len(v) = 3 THEN v[3] ELSE IF Len(v) >= 4 THEN v[4]
                    ELSE HoursDetail.self_study]

RowSection(nc, ct, indices) ==
    [SectionDetail(nc[1], nc[2]) EXCEPT !.hours = RowHours(vals(ct, indices))]

-----------------------------------------------------------------------------
(* Regular expressions, as far as the description and goals extractors use  *)
(* them (flag re.I throughout): a pattern is a record, and Ends(r, t, i) is *)
(* the set of the positions at which a match of r that starts at position i *)
(* of t can end.  Star and Plus repeat a pattern of one character.          *)

Lit(s) == [k |-> "lit", s |-> s]
Cls(c) == [k |-> "cls", c |-> c]
Non(c) == [k |-> "non", c |-> c]
Star(r) == [k |-> "star", r |-> r]
Plus(r) == [k |-> "plus", r |-> r]
Opt(r) == [k |-> "opt", r |-> r]
Cat(rs) == [k |-> "cat", rs |-> rs]
Alt(rs) == [k |-> "alt", rs |-> rs]

\* \w
WordSet == LowerLatin \cup LowerCyr \cup DigitChars \cup {"_"}
AnySpace == Cls(SpaceChars)
AnyDigit == Cls(DigitChars)
AnyWord == Cls(WordSet)

\* a pattern with and without a leading ^
Anchored(r) == [anchored |-> TRUE, re |-> r]
Anywhere(r) == [anchored |-> FALSE, re |-> r]

OneChar(r, c) ==
    CASE r.k = "lit" -> <<LowerChar(c)>> = r.s
      [] r.k = "cls" -> LowerChar(c) \in r.c
      [] r.k = "non" -> LowerChar(c) \notin r.c

\* the end of the run of characters of r from position i
RunEnd(r, t, i) ==
    LET stops == {k \in i..Len(t) : ~OneChar(r, t[k])}
    IN IF stops # {} THEN MinOf(stops) ELSE IF i > Len(t) THEN i ELSE Len(t) + 1

RECURSIVE Ends(_, _, _)
RECURSIVE EndsCat(_, _, _, _)
Ends(r, t, i) ==
    CASE r.k = "lit" -> IF i > Len(t) \/ LowerChar(t[i]) # r.s[1] THEN {}
                        ELSE IF AtCI(t, i, r.s) THEN {i + Len(r.s)} ELSE {}
      [] r.k \in {"cls", "non"} -> IF i <= Len(t) /\ OneChar(r, t[i]) THEN {i + 1} ELSE {}
      [] r.k = "star" -> i..RunEnd(r.r, t, i)
      [] r.k = "plus" -> (i + 1)..RunEnd(r.r, t, i)
      [] r.k = "opt" -> {i} \cup Ends(r.r, t, i)
      [] r.k = "cat" -> EndsCat(r.rs, 1, t, {i})
      [] r.k = "alt" -> UNION {Ends(r.rs[k], t, i) : k \in 1..Len(r.rs)}
EndsCat(rs, k, t, from) ==
    IF k > Len(rs) \/ from = {} THEN from
    ELSE EndsCat(rs, k + 1, t, UNION {Ends(rs[k], t, i) : i \in from})

\* the positions at which a match of p starts: pat.search(t), re.match(pat, t)
Search(p, t) ==
    {i \in 1..(IF p.anchored THEN 1 ELSE Len(t) + 1) : Ends(p.re, t, i) # {}}
Found(p, t) == Search(p, t) # {}
\* any(re.match(pat, t, re.I) for pat in pats)
AnyFound(pats, t) == \E k \in 1..Len(pats) : Found(pats[k], t)

\* pat.sub('', t): t without the matches of p, each taken as long as it can be
RECURSIVE RemoveAll(_, _, _)
RemoveAll(p, t, from) ==
    LET starts == {i \in Search(p, t) : i >= from} IN
    IF starts = {} THEN From(t, from)
    ELSE SubSeq(t, from, MinOf(starts) - 1)
            \o RemoveAll(p, t, MaxOf(Ends(p.re, t, MinOf(starts))))

\* re.search(prefix (head .*?) (?=look), t, re.I | re.DOTALL).group(1): the
\* match starts at the first position from which prefix, head and, somewhere
\* after them, look can be matched; the group runs from the end of the prefix
\* to the first match of look after the head
LookFrom(p, t, h) == {q \in h..Len(t) : Ends(p.look, t, q) # {}}
HeadEnds(p, t, b) == {h \in Ends(p.head, t, b) : LookFrom(p, t, h) # {}}
PrefixEnds(p, t, s) == {b \in Ends(p.prefix, t, s) : HeadEnds(p, t, b) # {}}
LazyStarts(p, t) == {s \in 1..Len(t) : PrefixEnds(p, t, s) # {}}
GroupFrom(p, t, b) == SubSeq(t, b, MinOf(LookFrom(p, t, MaxOf(HeadEnds(p, t, b)))) - 1)
LazyGroup(p, t) == GroupFrom(p, t, MaxOf(PrefixEnds(p, t, MinOf(LazyStarts(p, t)))))

\* re.split(r'[:.]', t, maxsplit=1): the part after the first colon or period
Marks(t) == {i \in 1..Len(t) : t[i] \in {":", "."}}
AfterMark(t) == From(t, MinOf(Marks(t)) + 1)

\* ' '.join(buf).strip(), then re.sub(r'^[.:;,\s]+', '', result)
Joined(lines) ==
    LET joined == Strip(JoinSp(lines))
    IN From(joined, SpanEnd(joined, 1, {".", ":", ";", ","} \cup SpaceChars))

-----------------------------------------------------------------------------
(* extract_description_docx and extract_goals_docx                          *)

SECTION_STOP_RE == <<
    Anchored(Cat(<<Cls(Range(T("23456789"))), Lit(T(".")), AnySpace>>)),
    Anchored(Cat(<<Lit(T("1.")), Cls(Range(T("456789")))>>)),
    Anchored(Cat(<<Lit(T("1.1")), Cls(Range(T("0123456789")))>>)),
    Anchored(Cat(<<Lit(T("~mesto~")), Plus(AnySpace), Lit(T("~disciplin3~"))>>)),
    Anchored(Cat(<<Lit(T("~soderjanie~")), Plus(AnySpace), Lit(T("~disciplin3~"))>>)),
    Anchored(Cat(<<Lit(T("~struktura~")), Plus(AnySpace), Lit(T("~disciplin3~"))>>)),
    Anchored(Cat(<<Lit(T("~ob2~")), Cls(Range(T("~e1~"))), Lit(T("~m~")), Plus(AnySpace),
        Lit(T("~disciplin3~"))>>)),
    Anchored(Lit(T("~kompetenci~"))),
    Anchored(Cat(<<Lit(T("~planiruem3e~")), Plus(AnySpace), Lit(T("~rezul4tat~"))>>)),
    Anchored(Cat(<<Lit(T("~trebovani7~")), Plus(AnySpace), Lit(T("~k~")), Plus(AnySpace),
        Lit(T("~rezul4tat~"))>>)),
    Anchored(Cat(<<Lit(T("~v~")), Plus(AnySpace), Lit(T("~rezul4tate~")), Plus(AnySpace),
        Alt(<<Lit(T("~izuqeni7~")), Lit(T("~osvoeni7~"))>>)>>)),
    Anchored(Cat(<<Lit(T("~pereqen4~")), Plus(AnySpace), Lit(T("~planiruem3h~"))>>)),
    Anchored(Cat(<<Lit(T("~tematiqeskiy~")), Plus(AnySpace), Lit(T("~plan~"))>>)),
    Anchored(Lit(T("~uqebno~-~tematiqeskiy~"))),
    Anchored(Cat(<<Lit(T("~raspredelenie~")), Plus(AnySpace), Lit(T("~qasov~"))>>)),
    Anchored(Cat(<<Lit(T("~vid3~")), Plus(AnySpace), Opt(Cat(<<Lit(T("~uqebnoy~")),
        Plus(AnySpace)>>)), Lit(T("~rabot~"))>>)),
    Anchored(Cat(<<Lit(T("~form~")), Opt(Lit(T("~3~"))), Plus(AnySpace),
        Opt(Cat(<<Lit(T("~tekuxego~")), Plus(AnySpace)>>)), Lit(T("~kontrol~"))>>)),
    Anchored(Cat(<<Lit(T("~fond~")), Plus(AnySpace), Lit(T("~ocenoqn3h~"))>>)) >>

desc_start_re == <<
    Anywhere(Lit(T("~annotac~"))),
    Anywhere(Cat(<<Lit(T("~kratkoe~")), Plus(AnySpace), Alt(<<Lit(T("~opisanie~")),
        Lit(T("~soderjanie~"))>>)>>)),
    Anywhere(Cat(<<Lit(T("~obxa7~")), Plus(AnySpace), Lit(T("~harakteristik~"))>>)),
    Anywhere(Cat(<<Lit(T("~opisanie~")), Plus(AnySpace), Lit(T("~disciplin3~"))>>)),
    Anchored(Cat(<<Lit(T("1.1")), Opt(Lit(T("."))), AnySpace>>)),
    Anywhere(Cat(<<Lit(T("~naznaqenie~")), Plus(AnySpace), Lit(T("~disciplin3~"))>>)) >>

desc_stop_extra == SECTION_STOP_RE \o <<Anchored(Cat(<<Lit(T("~cel~")), Cls(Range(T("~i4~"))),
        AnySpace>>)), Anchored(Cat(<<Lit(T("1.")), Cls(Range(T("23456789")))>>))>>

DescMarked ==
    [prefix |-> Cat(<<Alt(<<Cat(<<Lit(T("~annotac~")), Star(AnyWord)>>),
        Cat(<<Lit(T("~kratkoe~")), Plus(AnySpace), Lit(T("~opisanie~"))>>),
        Cat(<<Lit(T("~obxa7~")), Plus(AnySpace), Lit(T("~harakteristik~")),
        Star(AnyWord)>>)>>), Star(AnySpace), Opt(Cat(<<Lit(T("~disciplin3~")),
        Star(AnySpace)>>)), Opt(Cls(Range(T(".:;")))), Star(AnySpace)>>),
     head |-> Cat(<<>>),
     look |-> Alt(<<Cat(<<Lit(T("~cel~")), Cls(Range(T("~i4~"))), AnySpace>>),
        Cat(<<Lit(T("1.")), Cls(Range(T("23456789")))>>), Cat(<<Lit(T("2.")), AnySpace>>),
        Cat(<<Lit(T("~mesto~")), Plus(AnySpace), Lit(T("~disciplin3~"))>>),
        Lit(T("~kompetenci~"))>>)]

DescNumbered ==
    [prefix |-> Cat(<<Lit(T("1.1")), Opt(Lit(T("."))), Star(AnySpace),
        Alt(<<Lit(T("~opisanie~")), Lit(T("~annotaci7~")), Cat(<<Lit(T("~obxa7~")),
        Plus(AnySpace), Lit(T("~harakteristika~"))>>)>>), Star(AnySpace),
        Opt(Cat(<<Lit(T("~disciplin3~")), Star(AnySpace)>>)), Opt(Cls(Range(T(".:;")))),
        Star(AnySpace)>>),
     head |-> Cat(<<>>),
     look |-> Alt(<<Cat(<<Lit(T("1.")), Cls(Range(T("23456789")))>>), Cat(<<Lit(T("2.")),
        AnySpace>>), Cat(<<Lit(T("~cel~")), Cls(Range(T("~i4~"))), AnySpace>>)>>)]

DescQuoted ==
    [prefix |-> Cat(<<Alt(<<Lit(T("~disciplina~")), Lit(T("~kurs~"))>>), Star(AnySpace),
        Lit(<<"LAQUO">>), Plus(Non({"RAQUO"})), Lit(<<"RAQUO">>), Star(AnySpace)>>),
     head |-> Cat(<<Alt(<<Lit(T("~7vl7ets7~")), Lit(T("~otnosits7~")), Lit(T("~napravlen~")),
        Lit(T("~prednaznaqen~")), Lit(T("~izuqaet~")), Lit(T("~rassmatrivaet~")),
        Lit(T("~posv7xen~")), Lit(T("~formiruet~")), Lit(T("~obespeqivaet~"))>>),
        Star(AnyWord), AnySpace>>),
     look |-> Alt(<<Cat(<<Lit(T("~cel~")), Cls(Range(T("~i4~"))), AnySpace>>),
        Cat(<<Lit(T("1.")), Cls(Range(T("23456789")))>>), Cat(<<Lit(T("2.")), AnySpace>>)>>)]

desc_indicators == <<
    T("~disciplina~"), T("~kurs~"), T("~izuqaet~"), T("~rassmatrivaet~"), T("~posv7xen~"),
    T("~napravlen~"), T("~formiruet~"), T("~obespeqivaet~"), T("~7vl7ets7~"),
        T("~prednaznaqen~"),
    T("~ohvat3vaet~"), T("~vkl6qaet~"), T("~znakomit~"), T("~raskr3vaet~"), T("~soderjit~"),
    T("~orientirovan~"), T("~predpolagaet~"), T("~nacelen~"), T("~prizvan~") >>

NumberedHeading == Anchored(Cat(<<Plus(AnyDigit), Lit(T("."))>>))

goals_start_re == <<
    Anywhere(Cat(<<Lit(T("~cel~")), Cls(Range(T("~i4~"))), Plus(AnySpace),
        Opt(Cat(<<Lit(T("~i~")), Plus(AnySpace), Lit(T("~zadaqi~")), Plus(AnySpace)>>)),
        Opt(Cat(<<Lit(T("~osvoeni7~")), Plus(AnySpace)>>)), Alt(<<Lit(T("~disciplin3~")),
        Lit(T("~kursa~"))>>)>>)),
    Anywhere(Cat(<<Lit(T("~cel~")), Cls(Range(T("~i4~"))), Plus(AnySpace),
        Alt(<<Lit(T("~izuqeni7~")), Lit(T("~prepodavani7~"))>>)>>)),
    Anywhere(Cat(<<Lit(T("~cel~")), Cls(Range(T("~i4~"))), Plus(AnySpace),
        Lit(T("~disciplin3~"))>>)),
    Anywhere(Cat(<<Lit(T("~cel~")), Cls(Range(T("~i4~"))), Plus(AnySpace),
        Lit(T("~kursa~"))>>)),
    Anchored(Cat(<<Lit(T("1.3")), Opt(Lit(T("."))), AnySpace>>)),
    Anchored(Cat(<<Lit(T("1.2")), Opt(Lit(T("."))), Star(AnySpace), Lit(T("~cel~"))>>)),
    Anywhere(Cat(<<Lit(T("~cel46~")), Plus(AnySpace), Alt(<<Lit(T("~osvoeni7~")),
        Lit(T("~izuqeni7~")), Lit(T("~prepodavani7~"))>>)>>)),
    Anywhere(Cat(<<Lit(T("~osnovn~")), Plus(AnyWord), Plus(AnySpace), Lit(T("~cel~"))>>)) >>

goals_stop == SECTION_STOP_RE \o <<
    Anchored(Cat(<<Lit(T("~zadaqi~")), Plus(AnySpace), Lit(T("~disciplin3~"))>>)),
    Anchored(Cat(<<Lit(T("~osnovn3e~")), Plus(AnySpace), Lit(T("~zadaqi~"))>>)),
    Anchored(Cat(<<Lit(T("1.")), Cls(Range(T("456789")))>>)) >>

GoalStart == Cat(<<Alt(<<Lit(T("~7vl7ets7~")), Lit(T("=")), Lit(T("|")), Lit(T("-"))>>),
        Star(AnySpace)>>)

GoalStems == <<
    T("~formirovan~"), T("~razviti~"), T("~osvoeni~") >>

GoalsMarked ==
    [prefix |-> Cat(<<Lit(T("~cel~")), Cls(Range(T("~i4~"))), Plus(AnySpace),
        Opt(Cat(<<Lit(T("~i~")), Plus(AnySpace), Lit(T("~zadaqi~")), Plus(AnySpace)>>)),
        Opt(Cat(<<Lit(T("~osvoeni7~")), Plus(AnySpace)>>)), Alt(<<Lit(T("~disciplin3~")),
        Lit(T("~kursa~"))>>), Star(AnySpace), Opt(Cls(Range(T(".:;")))), Star(AnySpace),
        Opt(Lit(T("\n")))>>),
     head |-> Cat(<<>>),
     look |-> Alt(<<Cat(<<Lit(T("2.")), AnySpace>>), Cat(<<Lit(T("1.")),
        Cls(Range(T("456789")))>>), Cat(<<Lit(T("~mesto~")), Plus(AnySpace),
        Lit(T("~disciplin3~"))>>), Lit(T("~soderjanie~")), Lit(T("~kompetenci~")),
        Cat(<<Lit(T("~planiruem3e~")), Plus(AnySpace), Lit(T("~rezul4tat~"))>>),
        Lit(T("~struktura~")), Cat(<<Lit(T("~ob2~")), Cls(Range(T("~e1~"))),
        Lit(T("~m~"))>>)>>)]

GoalsStated ==
    [prefix |-> Cat(<<Lit(T("~cel46~")), Plus(AnySpace), Alt(<<Lit(T("~izuqeni7~")),
        Lit(T("~osvoeni7~")), Lit(T("~prepodavani7~"))>>), Plus(AnySpace),
        Opt(Cat(<<Lit(T("~uqebnoy~")), Plus(AnySpace)>>)), Alt(<<Lit(T("~disciplin3~")),
        Lit(T("~kursa~"))>>), Plus(AnySpace), Opt(Cat(<<Lit(<<"LAQUO">>), Plus(Non({"RAQUO"})),
        Lit(<<"RAQUO">>), Plus(AnySpace)>>)), Alt(<<Lit(T("~7vl7ets7~")),
        Lit(T("~slujit~"))>>), Star(AnySpace)>>),
     head |-> Cat(<<>>),
     look |-> Alt(<<Cat(<<Lit(T("2.")), AnySpace>>), Lit(T("~mesto~")), Lit(T("~zadaqi~")),
        Lit(T("~kompetenci~")), Cat(<<Lit(T("~v~")), Plus(AnySpace),
        Lit(T("~rezul4tate~"))>>)>>)]

GoalsNumbered ==
    [prefix |-> Cat(<<Lit(T("1.3")), Opt(Lit(T("."))), Star(AnySpace), Lit(T("~cel~")),
        Cls(Range(T("~i4~"))), Star(AnySpace), Opt(Cat(<<Lit(T("~i~")), Plus(AnySpace),
        Lit(T("~zadaqi~")), Plus(AnySpace)>>)), Opt(Cat(<<Lit(T("~disciplin3~")),
        Star(AnySpace)>>)), Opt(Cls(Range(T(".:;")))), Star(AnySpace)>>),
     head |-> Cat(<<>>),
     look |-> Alt(<<Cat(<<Lit(T("1.")), Cls(Range(T("456789")))>>), Cat(<<Lit(T("2.")),
        AnySpace>>), Lit(T("~mesto~")), Lit(T("~soderjanie~"))>>)]

SentenceStart == Cat(<<Lit(T("~cel4~")), Alt(<<Lit(T("~6~")), Cat(<<>>)>>), Plus(AnySpace),
        Alt(<<Lit(T("~osvoeni7~")), Lit(T("~izuqeni7~")), Lit(T("~prepodavani7~")),
        Lit(T("~disciplin3~")), Lit(T("~kursa~"))>>)>>)

SentenceVerb == Alt(<<Lit(T("~7vl7ets7~")), Lit(T("~slujit~")), Lit(T("~sostoit~")),
        Lit(T("~zakl6qaets7~"))>>)

GoalWord == Anywhere(Cat(<<Lit(T("~cel~")), Cls(Range(T("~i4~")))>>))

NumberedItem == Anchored(Cat(<<Plus(AnyDigit), Cls(Range(T(").")))>>))

ItemMark == Anchored(Cat(<<Plus(Cls(DigitChars \cup Range(T(")-.=|")) \cup {"MIDDOT",
        "BULLET"})), Star(AnySpace)>>))

MinRemainderLen == 15
ColonLineLen == 100
MaxBufLen == 2000
MinDescLen == 20
MinIndicatorLen == 50
MinGoalRemainder == 10
LongLineLen == 80
GoalColonLineLen == 80
MinGoalsLen == 15
MaxSentences == 3
GoalLineLen == 100
MinPlainLen == 20
MaxGoalBufLen == 1500

EndsWith(t, c) == Len(t) > 0 /\ t[Len(t)] = c

\* the first pattern of the list that is found in t
FirstFound(pats, t) == MinOf({k \in 1..Len(pats) : Found(pats[k], t)})

\* description, method 1, state idle: remainder = pat.sub('', t).strip(' .:;,')
DescRemainder(t) ==
    StripChars(RemoveAll(desc_start_re[FirstFound(desc_start_re, t)], t, 1),
               {" ", ".", ":", ";", ","})

\* goals, method 1, state idle: the text after the first colon or period, or
\* in a long line the text after "является" or a dash
GoalAfter(t) ==
    LET starts == {s \in 1..Len(t) : \E b \in Ends(GoalStart, t, s) : b <= Len(t)}
        b == MaxOf({b \in Ends(GoalStart, t, MinOf(starts)) : b <= Len(t)})
    IN IF starts = {} THEN <<>>
       ELSE IF Len(From(t, b)) > MinGoalRemainder THEN Strip(From(t, b)) ELSE <<>>

GoalRemainder(t) ==
    IF Marks(t) # {}
    THEN IF Len(Strip(AfterMark(t))) > MinGoalRemainder THEN Strip(AfterMark(t)) ELSE <<>>
    ELSE IF Len(t) > LongLineLen THEN GoalAfter(t) ELSE <<>>

\* the extractor at hand
IsDescription == fn = "extract_description_docx"
StartPatterns == IF IsDescription THEN desc_start_re ELSE goals_start_re
StopPatterns == IF IsDescription THEN desc_stop_extra ELSE goals_stop
Remainder(t) ==
    IF IsDescription
    THEN IF Len(DescRemainder(t)) > MinRemainderLen THEN DescRemainder(t) ELSE <<>>
    ELSE GoalRemainder(t)
\* a short line that ends with a colon is not collected
ColonLine(t) ==
    IF IsDescription THEN Len(t) < ColonLineLen /\ EndsWith(t, ":")
    ELSE Len(t) < GoalColonLineLen /\ EndsWith(t, ":") /\ ~AnyIn(GoalStems, Lower(t))
MinLen == IF IsDescription THEN MinDescLen ELSE MinGoalsLen

\* method 2: the patterns on the full text, the first whose group, cleaned,
\* is long enough
TextPatterns == IF IsDescription THEN <<DescMarked, DescNumbered, DescQuoted>>
                ELSE <<GoalsMarked, GoalsStated, GoalsNumbered>>
TextGroup(p, text) == IF LazyStarts(p, text) = {} THEN <<>> ELSE clean(LazyGroup(p, text))
TextHits(text) == {k \in 1..Len(TextPatterns) : Len(TextGroup(TextPatterns[k], text)) > MinLen}
FirstGroup(hits, text) == IF hits = {} THEN <<>> ELSE TextGroup(TextPatterns[MinOf(hits)], text)
TextValue(text) == FirstGroup(TextHits(text), text)

\* description, method 3: the first long paragraph with a descriptive word
Descriptive(t) ==
    /\ Len(t) >= MinIndicatorLen /\ ~is_noise_text(t)
    /\ AnyIn(desc_indicators, Lower(t)) /\ ~Found(NumberedHeading, t)
Indicated(paragraphs) ==
    LET hits == {i \in 1..Len(paragraphs) : Descriptive(clean(paragraphs[i]))}
    IN IF hits = {} THEN <<>> ELSE clean(paragraphs[MinOf(hits)])

\* goals, method 3: re.findall of the sentences "цель ... является ... ."
PeriodFrom(t, i) == {d \in i..Len(t) : t[d] = "."}
SentenceEnd(t, s) ==
    LET b == MaxOf(Ends(SentenceStart, t, s))
        d == MinOf(PeriodFrom(t, b))
    IN IF Ends(SentenceStart, t, s) = {} THEN 0
       ELSE IF PeriodFrom(t, b) = {} THEN 0
       ELSE IF \E v \in b..d : Ends(SentenceVerb, t, v) # {} /\ MaxOf(Ends(SentenceVerb, t, v)) <= d
            THEN d ELSE 0
RECURSIVE goal_sentences(_, _)
goal_sentences(t, from) ==
    LET starts == {s \in from..Len(t) : SentenceEnd(t, s) > 0} IN
    IF starts = {} THEN <<>>
    ELSE <<SubSeq(t, MinOf(starts), SentenceEnd(t, MinOf(starts)))>>
            \o goal_sentences(t, SentenceEnd(t, MinOf(starts)) + 1)
FirstSentences(found) == SubSeq(found, 1, IF Len(found) < MaxSentences THEN Len(found) ELSE MaxSentences)
Stated(text) == clean(JoinSp(FirstSentences(goal_sentences(text, 1))))

\* goals, method 4: the lines after a short line with the word "цель"
IsItem(t) == t[1] \in Bullets \/ Found(NumberedItem, t)
Unmarked(t) == From(t, MaxOf(Ends(ItemMark.re, t, 1)))
GoalLine(t) == Found(GoalWord, t) /\ Len(t) < GoalLineLen
AfterGoalLine(t, goal_buf) ==
    IF Marks(t) # {} /\ Len(Strip(AfterMark(t))) > MinGoalRemainder
    THEN Append(goal_buf, Strip(AfterMark(t))) ELSE goal_buf
Listed(t, goal_buf) ==
    IF IsItem(t) THEN Append(goal_buf, Unmarked(t))
    ELSE IF Len(t) > MinPlainLen THEN Append(goal_buf, t) ELSE goal_buf
RECURSIVE GoalItems(_, _, _, _)
GoalItems(paragraphs, i, in_goals, goal_buf) ==
    IF i > Len(paragraphs) THEN goal_buf
    ELSE IF Len(clean(paragraphs[i])) = 0 THEN GoalItems(paragraphs, i + 1, in_goals, goal_buf)
    ELSE IF GoalLine(clean(paragraphs[i]))
    THEN GoalItems(paragraphs, i + 1, TRUE, AfterGoalLine(clean(paragraphs[i]), goal_buf))
    ELSE IF ~in_goals THEN GoalItems(paragraphs, i + 1, in_goals, goal_buf)
    ELSE IF AnyFound(goals_stop, clean(paragraphs[i])) THEN goal_buf
    ELSE IF Len(JoinSp(Listed(clean(paragraphs[i]), goal_buf))) > MaxGoalBufLen
    THEN Listed(clean(paragraphs[i]), goal_buf)
    ELSE GoalItems(paragraphs, i + 1, in_goals, Listed(clean(paragraphs[i]), goal_buf))
Bulleted(paragraphs) == JoinSp(GoalItems(paragraphs, 1, FALSE, <<>>))

\* "\n".join(p.text for p in doc.paragraphs)
full_text_blob(paragraphs) == JoinLines(paragraphs)

-----------------------------------------------------------------------------
(* The SQLite database of main.py: init_db, save_to_db, load_from_db and    *)
(* delete_file_from_db.  A table is the set of its rows.                    *)

\* init_db on a new file: the seven tables, empty
EmptyDb ==
    [files |-> {}, disciplines |-> {}, sections |-> {}, software |-> {},
     section_software |-> {}, literature |-> {}, outcomes |-> {}]

\* str(uuid.uuid4()) after n identifiers were issued: no two calls agree
uuid4(n) == n + 1

FileRow(file_id, filename, file_size) ==
    [id |-> file_id, filename |-> filename, file_size |-> file_size, status |-> "processed"]

DisciplineRow(disc_id, file_id, d) ==
    [id |-> disc_id, file_id |-> file_id, name |-> d.name, direction |-> d.direction,
     edu_program |-> d.edu_program, edu_level |-> d.edu_level, period |-> d.period,
     volume |-> d.volume, volume_details |-> d.volume_details, goals |-> d.goals,
     description |-> d.description, category |-> d.category]

\* section_order INTEGER DEFAULT 0, for every row
section_order_default(i) == 0

\* "for i, sec in enumerate(data.sections)": the i-th section has order i - 1
section_order(i) == i - 1

SectionRow(sec_id, disc_id, sec, i) ==
    [id |-> sec_id, discipline_id |-> disc_id, name |-> sec.name, content |-> sec.content,
     hours_lectures |-> sec.hours.lectures, hours_practice |-> sec.hours.practice,
     hours_labs |-> sec.hours.labs, hours_self_study |-> sec.hours.self_study,
     section_order |-> section_order(i)]

SoftwareRow(sw_id, disc_id, sw) == [id |-> sw_id, discipline_id |-> disc_id, name |-> sw]

\* json.dumps of a list of str, and json.loads of the stored text
json_dumps(authors) == <<"json", authors>>
json_loads(text) == text[2]

\* "lit.year or ''"
YearOrEmpty(year) == IF year = None THEN <<>> ELSE year

LiteratureRow(lit_id, disc_id, lit, lit_category) ==
    [id |-> lit_id, discipline_id |-> disc_id, raw |-> lit.raw, title |-> lit.title,
     authors |-> json_dumps(lit.authors), year |-> YearOrEmpty(lit.year),
     publisher |-> lit.publisher, url |-> lit.url, doi |-> lit.doi, isbn |-> lit.isbn,
     pages |-> lit.pages, entry_type |-> lit.entry_type, lit_category |-> lit_category]

OutcomeRow(out_id, disc_id, code) == [id |-> out_id, discipline_id |-> disc_id, code |-> code]

\* sw_name_to_id after the loop over data.software, whose identifiers are
\* first, first + 1, ...: a name listed twice keeps its last identifier
sw_name_to_id(software, first) ==
    [sw \in Range(software) |->
        first + MaxOf({k \in 1..Len(software) : software[k] = sw}) - 1]

\* the pairs of "INSERT OR IGNORE INTO section_software", for the first k
\* sections: "if sw_name in sw_name_to_id"
Links(sections, section_ids, name_to_id, k) ==
    UNION {{[section_id |-> section_ids[i], software_id |-> name_to_id[sw]] :
                sw \in Range(sections[i].linked_software) \cap DOMAIN name_to_id} : i \in 1..k}

\* the tables of save_to_db in the order it writes them
InsertSteps == <<"files", "disciplines", "sections", "software", "section_software",
                 "literature", "outcomes">>

AfterStep(step) ==
    IF step = "outcomes" THEN "commit"
    ELSE InsertSteps[1 + CHOOSE i \in 1..Len(InsertSteps) : InsertSteps[i] = step]

\* the number of rows save_to_db writes at a step
RowCount(step, a) ==
    CASE step = "files" -> 1
      [] step = "disciplines" -> 1
      [] step = "sections" -> Len(a.data.sections)
      [] step = "software" -> Len(a.data.software)
      [] step = "section_software" -> Len(a.data.sections)
      [] step = "literature" -> Len(a.data.literature.main) + Len(a.data.literature.additional)
      [] step = "outcomes" -> Len(a.data.outcomes)

Literature(lits) == lits.main \o lits.additional
LitCategory(lits, m) == IF m <= Len(lits.main) THEN "main" ELSE "additional"

\* the rows of a step that save_to_db has written after k of its inserts
\* (for section_software: after the links of k sections); n identifiers
\* were issued before the step, loc are the locals
StepRows(step, a, loc, n, k) ==
    CASE step = "files" -> {FileRow(a.file_id, a.filename, a.file_size) : i \in 1..k}
      [] step = "disciplines" -> {DisciplineRow(uuid4(n), a.file_id, a.data) : i \in 1..k}
      [] step = "sections" ->
            {SectionRow(uuid4(n + i - 1), loc.disc_id, a.data.sections[i], i) : i \in 1..k}
      [] step = "software" ->
            {SoftwareRow(uuid4(n + i - 1), loc.disc_id, a.data.software[i]) : i \in 1..k}
      [] step = "section_software" ->
            Links(a.data.sections, loc.section_ids, loc.sw_name_to_id, k)
      [] step = "literature" ->
            {LiteratureRow(uuid4(n + i - 1), loc.disc_id, Literature(a.data.literature)[i],
                           LitCategory(a.data.literature, i)) : i \in 1..k}
      [] step = "outcomes" ->
            {OutcomeRow(uuid4(n + i - 1), loc.disc_id, a.data.outcomes[i]) : i \in 1..k}

\* the identifiers uuid.uuid4() issues during k inserts of a step
StepIds(step, k) == IF step \in {"files", "section_software"} THEN 0 ELSE k

\* the locals after k inserts of a step
StepLocals(step, a, loc, n, k) ==
    CASE step = "disciplines" -> [loc EXCEPT !.disc_id = uuid4(n)]
      [] step = "sections" -> [loc EXCEPT !.section_ids = [i \in 1..k |-> uuid4(n + i - 1)]]
      [] step = "software" ->
            [loc EXCEPT !.sw_name_to_id = sw_name_to_id(SubSeq(a.data.software, 1, k), uuid4(n))]
      [] OTHER -> loc

NoLocals == [disc_id |-> None, section_ids |-> <<>>, sw_name_to_id |-> <<>>]

Inserted(base, step, rows) == [base EXCEPT ![step] = @ \cup rows]

\* conn.rollback(): the database as it was before the first insert
rollback_nothing(base, before) == base

rollback(base, before) == before

\* "SELECT * FROM disciplines WHERE file_id = ?"
DisciplinesOf(base, file_id) == {d \in base.disciplines : d.file_id = file_id}

\* the rows of the record saved as file_id, table by table
RecordRows(base, file_id) ==
    [files |-> {r \in base.files : r.id = file_id},
     disciplines |-> DisciplinesOf(base, file_id),
     sections |-> {r \in base.sections : \E d \in DisciplinesOf(base, file_id) : r.discipline_id = d.id},
     software |-> {r \in base.software : \E d \in DisciplinesOf(base, file_id) : r.discipline_id = d.id},
     section_software |->
        {r \in base.section_software :
            \E d \in DisciplinesOf(base, file_id), sr \in base.sections :
                sr.id = r.section_id /\ sr.discipline_id = d.id},
     literature |-> {r \in base.literature : \E d \in DisciplinesOf(base, file_id) : r.discipline_id = d.id},
     outcomes |-> {r \in base.outcomes : \E d \in DisciplinesOf(base, file_id) : r.discipline_id = d.id}]

\* every sequence that lists the rows of a set once: the orders in which a
\* SELECT without ORDER BY may return them
Listings(rows) ==
    {s \in [1..Cardinality(rows) -> rows] : \A i, j \in 1..Cardinality(rows) : i # j => s[i] # s[j]}

\* "ORDER BY section_order": rows of equal order come in any order
OrderedBySectionOrder(rows) ==
    {s \in Listings(rows) : \A i, j \in 1..Len(s) : i < j => s[i].section_order <= s[j].section_order}

\* the SectionDetail of a row of sections, with the names of its links
LoadedSection(sr, linked) ==
    [name |-> sr.name, content |-> sr.content,
     hours |-> [lectures |-> sr.hours_lectures, practice |-> sr.hours_practice,
                labs |-> sr.hours_labs, self_study |-> sr.hours_self_study],
     linked_software |-> linked]

\* "SELECT s.name FROM software s JOIN section_software ss ON s.id =
\* ss.software_id WHERE ss.section_id = ?"
LinkedRows(base, section_id) ==
    {s \in base.software :
        [section_id |-> section_id, software_id |-> s.id] \in base.section_software}

\* LiteratureEntry(...) of a row of literature: number is not stored
LoadedEntry(lr) ==
    [raw |-> lr.raw, number |-> None, authors |-> json_loads(lr.authors), title |-> lr.title,
     year |-> lr.year, publisher |-> lr.publisher, pages |-> lr.pages, url |-> lr.url,
     doi |-> lr.doi, isbn |-> lr.isbn, entry_type |-> lr.entry_type]

LoadedEntries(rows) == [i \in 1..Len(rows) |-> LoadedEntry(rows[i])]

Names(rows) == [i \in 1..Len(rows) |-> rows[i].name]

\* the record load_from_db builds from the discipline row disc and the rows
\* each SELECT returned, in the order it returned them
Loaded(disc, secs, linked, sw, lits, outs) ==
    [name |-> disc.name, direction |-> disc.direction, edu_program |-> disc.edu_program,
     edu_level |-> disc.edu_level, period |-> disc.period, volume |-> disc.volume,
     volume_details |-> disc.volume_details, goals |-> disc.goals,
     description |-> disc.description, category |-> disc.category,
     sections |-> [i \in 1..Len(secs) |-> LoadedSection(secs[i], Names(linked[secs[i].id]))],
     outcomes |-> [i \in 1..Len(outs) |-> outs[i].code],
     software |-> Names(sw),
     literature |->
        [main |-> LoadedEntries(SelectSeq(lits, LAMBDA lr : lr.lit_category = "main")),
         additional |-> LoadedEntries(SelectSeq(lits, LAMBDA lr : lr.lit_category # "main"))]]

Of(rows, disc_id) == {r \in rows : r.discipline_id = disc_id}

\* for every section, the rows of its links in an order the join may return
LinkedListings(base, section_ids) ==
    {l \in [section_ids -> UNION {Listings(LinkedRows(base, id)) : id \in section_ids}] :
        \A id \in section_ids : l[id] \in Listings(LinkedRows(base, id))}

\* the records load_from_db(file_id) may return for the discipline row disc
LoadedFrom(base, disc) ==
    {Loaded(disc, secs, linked, sw, lits, outs) :
        secs \in OrderedBySectionOrder(Of(base.sections, disc.id)),
        linked \in LinkedListings(base, {sr.id : sr \in Of(base.sections, disc.id)}),
        sw \in Listings(Of(base.software, disc.id)),
        lits \in Listings(Of(base.literature, disc.id)),
        outs \in Listings(Of(base.outcomes, disc.id))}

\* DELETE FROM files WHERE id = ?, with ON DELETE CASCADE on every foreign key
\* (PRAGMA foreign_keys=ON)
delete_file_from_db(base, file_id) ==
    [t \in DOMAIN base |-> base[t] \ RecordRows(base, file_id)[t]]

-----------------------------------------------------------------------------
(* The analyze endpoint: the objects a parse allocates, the steps of the    *)
(* two parsers, the graph of a record                                       *)

\* os.path.splitext(filename)[1].lower(): from the last period of the last
\* path component, unless only periods come before it
Ext(filename) ==
    LET base == MaxOf({0} \cup {i \in 1..Len(filename) : filename[i] = "/"}) + 1
        dots == {i \in base..Len(filename) :
                    /\ filename[i] = "."
                    /\ \E j \in base..(i - 1) : filename[j] # "."}
    IN IF dots = {} THEN <<>> ELSE Lower(From(filename, MaxOf(dots)))

\* the parser analyze calls for an extension, "" if it raises
\* HTTPException(400, "Only PDF/DOCX")
Parser_pdf_otherwise(ext) ==
    IF ext = T(".docx") THEN "parse_docx_structural" ELSE "parse_pdf_regex"

Parser(ext) ==
    IF ext = T(".docx") THEN "parse_docx_structural"
    ELSE IF ext = T(".pdf") THEN "parse_pdf_regex"
    ELSE ""

\* the statements of a parser, in the order of its body
DocxSteps_match_first ==
    <<"open", "fields", "software", "match", "literature", "sections", "classify", "return">>

DocxSteps ==
    <<"open", "fields", "software", "literature", "sections", "classify", "match", "return">>

PdfSteps ==
    <<"open", "fields", "sections", "software", "literature", "classify", "match", "return">>

Steps(parser) == IF parser = "parse_docx_structural" THEN DocxSteps ELSE PdfSteps

StepAfter(parser, step) ==
    Steps(parser)[1 + CHOOSE i \in 1..Len(Steps(parser)) : Steps(parser)[i] = step]

\* a coroutine gives up the event loop only at an await: analyze has one,
\* "await file.read()"
Suspends_in_parse(step) == step \in {"read", "open", "fields"}

Suspends(step) == step = "read"

\* the objects of the process: heap[ref] is the object with reference ref
New(h, obj) == Append(h, obj)
Ref(h) == Len(h) + 1

\* DisciplineData(): a new record with a new sections list (default_factory)
\* and its own copy of the default LiteratureList
NewDisciplineData(h) ==
    New(New(New(h, <<>>), LiteratureList),
        [DisciplineData EXCEPT !.sections = Ref(h), !.literature = Ref(h) + 1])

\* "h = HoursDetail() ... data.sections.append(SectionDetail(name=...,
\* content=..., hours=h))" for rows[i..]: every section has a new hours
\* object and no linked software
RECURSIVE AppendSections(_, _, _, _)
AppendSections(h, lst, rows, i) ==
    IF i > Len(rows) THEN h
    ELSE AppendSections(
            [New(h, rows[i].hours) EXCEPT
                ![lst] = Append(@, [SectionDetail(rows[i].name, rows[i].content) EXCEPT !.hours = Ref(h)])],
            lst, rows, i + 1)

\* the record a reference stands for, with its lists and hours objects
Deref(h, ref) ==
    [h[ref] EXCEPT
        !.sections = [i \in 1..Len(h[h[ref].sections]) |->
                        [h[h[ref].sections][i] EXCEPT !.hours = h[h[h[ref].sections][i].hours]]],
        !.literature = h[h[ref].literature]]

\* the references of the objects of a record: the record, its section list,
\* its literature list and the hours of its sections
Objects(h, ref) ==
    {ref, h[ref].sections, h[ref].literature}
        \cup {h[h[ref].sections][i].hours : i \in 1..Len(h[h[ref].sections])}

\* data.sections = SoftwareMatcher.match(data.sections, data.software):
\* match writes the sections of the list it is given
Matched(h, ref) == [h EXCEPT ![h[ref].sections] = match(@, h[ref].software)]

\* the software list of a parser from the names it found
SoftwareOf(parser, found) ==
    IF parser = "parse_docx_structural" THEN DedupSoftware(found, 1, <<>>)
    ELSE PdfSoftware(found, 1, <<>>)

\* text[:n]
Cut(text, n) == SubSeq(text, 1, IF Len(text) < n THEN Len(text) ELSE n)

RootLabelLen == 60
SectionLabelLen == 50
SoftwareLabelLen == 30
LiteratureLabelLen == 45
MaxMainNodes == 6
MaxAdditionalNodes == 5

GraphNode(id, label, type) == [id |-> id, label |-> label, type |-> type]
GraphEdge(source, target, label) == [source |-> source, target |-> target, label |-> label]

\* "lit.title or lit.raw"
TitleOrRaw(lit) == IF lit.title = <<>> THEN lit.raw ELSE lit.title

\* data.software.index(sw), from 0
SoftwareIndex(software, sw) == FirstIndex(software, sw) - 1

\* the (section, software index) pairs of the loop over the linked software of
\* sections[i..]: "if sw not in data.software: continue"
RECURSIVE Uses(_, _)
Uses(d, i) ==
    IF i > Len(d.sections) THEN <<>>
    ELSE [j \in 1..Len(SelectSeq(d.sections[i].linked_software, LAMBDA sw : sw \in Range(d.software))) |->
            [sec |-> i - 1,
             sw |-> SoftwareIndex(d.software,
                        SelectSeq(d.sections[i].linked_software, LAMBDA sw : sw \in Range(d.software))[j])]]
         \o Uses(d, i + 1)

\* a node for every use of a listed name, without the sw_added test
SoftwareOrder_unguarded(d, uses) ==
    [j \in 1..Len(uses) |-> uses[j].sw]
    \o SelectSeq([k \in 1..Len(d.software) |-> k - 1],
                 LAMBDA idx : \A j \in 1..Len(uses) : uses[j].sw # idx)

\* the software indexes in the order their nodes are added: the linked ones
\* as the sections name them, then the others ("if swid not in sw_added")
SoftwareOrder(d, uses) ==
    SelectSeq([j \in 1..Len(uses) |->
                   IF \E k \in 1..(j - 1) : uses[k].sw = uses[j].sw THEN -1 ELSE uses[j].sw],
              LAMBDA idx : idx >= 0)
    \o SelectSeq([k \in 1..Len(d.software) |-> k - 1],
                 LAMBDA idx : \A j \in 1..Len(uses) : uses[j].sw # idx)

SoftwareNodes(d, prefix, order) ==
    [j \in 1..Len(order) |->
        GraphNode(prefix \o <<"sw", order[j]>>, Cut(d.software[order[j] + 1], SoftwareLabelLen), "software")]

\* build_graph: the nodes of a record, in the order they are added
GraphNodes(d, prefix) ==
    <<GraphNode(prefix \o <<"root">>, Cut(d.name, RootLabelLen), "discipline")>>
    \o [i \in 1..Len(d.sections) |->
            GraphNode(prefix \o <<"sec", i - 1>>, Cut(d.sections[i].name, SectionLabelLen), "section")]
    \o SoftwareNodes(d, prefix, SoftwareOrder(d, Uses(d, 1)))
    \o [i \in 1..Len(Cut(d.literature.main, MaxMainNodes)) |->
            GraphNode(prefix \o <<"lm", i - 1>>,
                      Cut(TitleOrRaw(d.literature.main[i]), LiteratureLabelLen), "lit_main")]
    \o [i \in 1..Len(Cut(d.literature.additional, MaxAdditionalNodes)) |->
            GraphNode(prefix \o <<"la", i - 1>>,
                      Cut(TitleOrRaw(d.literature.additional[i]), LiteratureLabelLen), "lit_add")]

UseEdges(prefix, uses) ==
    [j \in 1..Len(uses) |->
        GraphEdge(prefix \o <<"sec", uses[j].sec>>, prefix \o <<"sw", uses[j].sw>>, T("~ispol4zuet~"))]

\* build_graph: the edges of a record, in the order they are added
GraphEdges(d, prefix) ==
    [i \in 1..Len(d.sections) |-> GraphEdge(prefix \o <<"root">>, prefix \o <<"sec", i - 1>>, None)]
    \o UseEdges(prefix, Uses(d, 1))
    \o [k \in 1..Len(SelectSeq([k \in 1..Len(d.software) |-> k - 1],
                               LAMBDA idx : \A j \in 1..Len(Uses(d, 1)) : Uses(d, 1)[j].sw # idx)) |->
            GraphEdge(prefix \o <<"root">>,
                      prefix \o <<"sw", SelectSeq([n \in 1..Len(d.software) |-> n - 1],
                                    LAMBDA idx : \A j \in 1..Len(Uses(d, 1)) : Uses(d, 1)[j].sw # idx)[k]>>,
                      None)]
    \o [i \in 1..Len(Cut(d.literature.main, MaxMainNodes)) |->
            GraphEdge(prefix \o <<"root">>, prefix \o <<"lm", i - 1>>,
                      IF i = 1 THEN T("~osn~.") ELSE None)]
    \o [i \in 1..Len(Cut(d.literature.additional, MaxAdditionalNodes)) |->
            GraphEdge(prefix \o <<"root">>, prefix \o <<"la", i - 1>>,
                      IF i = 1 THEN T("~dop~.") ELSE None)]

build_graph(d, prefix) == [nodes |-> GraphNodes(d, prefix), edges |-> GraphEdges(d, prefix)]

\* AnalysisResponse(file_id=file_id, metadata=data, graph_nodes=nodes,
\* graph_edges=edges)
AnalysisResponse(file_id, d) ==
    [status |-> 200, file_id |-> file_id, metadata |-> d, graph |-> build_graph(d, <<>>)]

\* the response of a raised HTTPException
HTTPException(status) == [status |-> status]

\* the number of identifiers save_to_db issues for a record
IdsIssued(d) ==
    1 + Len(d.sections) + Len(d.software) + Len(Literature(d.literature)) + Len(d.outcomes)

-----------------------------------------------------------------------------
(* Bounded inputs                                                           *)

MaxCleanLen == 4

RECURSIVE StringsUpTo(_, _)
StringsUpTo(alphabet, n) ==
    IF n = 0 THEN {<<>>}
    ELSE LET shorter == StringsUpTo(alphabet, n - 1)
         IN shorter \cup {<<c>> \o s : c \in alphabet, s \in {x \in shorter : Len(x) = n - 1}}

CleanAlphabet == {" ", "\n", "\t", "\r", "\f", NBSP, "a"}
CleanInputs == StringsUpTo(CleanAlphabet, MaxCleanLen)

\* table rows: up to MaxCells cells drawn from RowCells, and the two rows of
\* the row-classifier examples
MaxCells == 3
RowCells == {
    T("# ~p~/~p~"),
    T("~Naimenovanie~ ~tem~"),
    T("~Lekcii~"),
    T("~Itogo~"),
    T("72"),
    T("36"),
    T("~Tema~ 1. ~Vvedenie~"),
    T(""),
    T("~PZ~") }
HeaderExample == <<T("# ~p~/~p~"), T("~Naimenovanie~ ~tem~"), T("~Lekcii~")>>
SkipExample == <<T("~Itogo~"), T("72"), T("36"), T("36")>>
RowInputs == StringsUpTo(RowCells, MaxCells) \cup {HeaderExample, SkipExample}

\* section tables: up to MaxTableRows rows drawn from TableRowExamples
MaxTableRows == 3
CaptionRow == <<T("# ~p~/~p~"), T("~Naimenovanie~ ~tem~"), T("~Lekcii~"), T("~PZ~")>>
TopicRow == <<T("1."), T(" ~Vvedenie~ ~v~ Python. ~Osnov3~ ~7z3ka~"), T("2"), T("4")>>
SingleRow == <<T("~Tema~ 1. ~Vvedenie~"), T("2"), T(" 4 ")>>
NoiseRow == <<T("~Protokol~ ~zasedani7~"), T("2"), T("4")>>
TotalRow == <<T("~Itogo~"), T("6"), T("8")>>
NumberRow == <<T("2"), T("10"), T("12")>>
MergedRow == <<T("~Razdel~ 1"), T("~osnov3~ ~7z3ka~"), T("-"), T("4")>>
ShortNameRow == <<T("~&z~"), T("3"), T("5")>>
TableRowExamples == {
    CaptionRow, TopicRow, SingleRow, NoiseRow, TotalRow, NumberRow, MergedRow, ShortNameRow,
    <<>> }
Tables == StringsUpTo(TableRowExamples, MaxTableRows)

\* name, description and goals of a discipline
ClassifyTexts == {
    T(""),
    T("~Vvedenie~"),
    T("~Biofizika~"),
    T("~Istori7~ ~himii~"),
    T("~Organiqeska7~ ~himi7~"),
    T("Python ~i~ SQL"),
    T("~Filosofi7~ ~prava~"),
    T("~%kologi7~ ~i~ ~geografi7~") }
ClassifyInputs == ClassifyTexts \X ClassifyTexts \X ClassifyTexts

\* titles: an optional numbering prefix, a first phrase, a continuation, and
\* filler that brings some of them to 300 characters and more
SplitPrefixes == {
    T(""),
    T("~Tema~ 1. "),
    T("~Razdel~ 2: "),
    T("~modul4~ 3 "),
    T("~Tema~ ") }
SplitHeads == {
    T("~Vvedenie~"),
    T("~Osnov3~ ~teorii~"),
    T("~Gl~"),
    T("~Sistemn3y~  ~analiz~ ~dann3h~") }
SplitTails == {
    T(""),
    T(" ~i~ ~dr~."),
    T(". ~Metod3~"),
    T(". ~metod3~"),
    T(". ~Obzor~ ~kursa~"),
    T(". ~!mkost4~"),
    T(".. ~Itogi~") }
Filler(n) == [i \in 1..n |-> IF i % 7 = 0 THEN " " ELSE "~a"]
SplitTitles ==
    {p \o h \o t : p \in SplitPrefixes, h \in SplitHeads, t \in SplitTails}
    \cup {h \o Filler(n) : h \in SplitHeads, n \in {280, 290, 300}}
    \cup {<<>>, T(" ~Vvedenie~ ~v~ ~sistemn3y~ ~analiz~")}
SplitContents == {<<>>, T("~Obzor~ ~metodov~. ~Primer3~")}
SplitInputs == [title : SplitTitles, content : SplitContents]

\* lines of a literature buffer: normalized, 3 characters and more, as
\* extract_from_paragraphs and extract_from_text collect them
MaxLines == 3
MergeExample == <<T("1. ~Ivanov~ ~I~.~I~. ~Kurs~ ~lekciy~. = ~M~., 2019."), T("~prodoljenie~ ~teksta~.")>>
LitLines == {
    T("1. ~Ivanov~ ~I~.~I~. ~Kurs~ ~lekciy~. = ~M~., 2019."),
    T("~prodoljenie~ ~teksta~."),
    T("[2] ~Petrov~ ~P~.~P~. ~Fizika~"),
    T("3) ~Sidorov~ ~S~.~S~. ~Himi7~"),
    T("2020. = 300 ~s~."),
    T("1.5 ~razdela~"),
    T("120. ~Tom~"),
    T("(~sm~. ~takje~)") }
MergeInputs == StringsUpTo(LitLines, MaxLines)

\* bibliography entries of the shape
\*   <number>. <Surname I.I.> <Title>. – <City>: <Publisher>, <year>. – <N> с.
\* and entries of other kinds
EntryNumbers == {T("2"), T("15"), T("2019")}
EntryAuthors == {T("~Petrov~ ~P~.~P~."), T("~!lkin~ ~A~. ~B~.")}
EntryTitles ==
    {T("~Fizika~"), T("~Kurs~ ~lekciy~"), T("~Seti~"), T("~Standart3~ ~sv7zi~"), T("~Odisse7~ 2001"), T("~Vitamin~ ~S~")}
EntryCities == {T("~SPb~."), T("~M~.")}
EntryPublishers == {T("~Nauka~"), T("~Lan4~")}
EntryYears == {T("1950"), T("2020"), T("2039")}
EntryPageCounts == {T("300"), T("5")}
ShapedRaw(e) ==
    e.number \o T(". ") \o e.author \o T(" ") \o e.title \o T(". = ") \o e.city \o T(": ")
        \o e.publisher \o T(", ") \o e.year \o T(". = ") \o e.pages \o PageSuffix
ShapedEntries ==
    {[shaped |-> TRUE, raw |-> ShapedRaw(e)] @@ e :
        e \in [number : EntryNumbers, author : EntryAuthors, title : EntryTitles,
               city : EntryCities, publisher : EntryPublishers, year : EntryYears,
               pages : EntryPageCounts]}
OtherEntries ==
    {[shaped |-> FALSE, raw |-> r] : r \in {
        T("[3] ~Sidorov~, ~A~. ~B~. ~Seti~ // ~Vestnik~ ~MGU~. 2015. # 3. ~S~. 5-10."),
        T("4) ~I~.~I~. ~Ivanov~ ~Osnov3~ ~programmirovani7~ | ~M~.: ~Mir~, 2001. | 120 c."),
        T("~GOST~ 7.1-2003 ~Bibliografiqeska7~ ~zapis4~"),
        T("~%lektronno~-~biblioteqna7~ ~sistema~ https://www.iprbookshop.ru/123.html."),
        T("5. Python docs. URL: https://docs.python.org/3/; 2021"),
        T("~Uqebnik~ ~po~ Python http://example.com/book, 2010"),
        T("6. Smith J. Deep Learning. doi: 10.1234/abc.def, ISBN: 978-5-9775-1234-5 = 2018. - 12 ~s~"),
        T("~Spravoqnik~ ~bez~ ~avtora~ ~i~ ~goda~"),
        T("~Standart3~ ~sv7zi~ // ~Vestnik~ ~sv7zi~. 2015. # 2."),
        T("7. ~GOST~ ~R~ 7.0.5-2008 http://protect.gost.ru/document.aspx"),
        T("~Monografi7~ ~%BS~ ~^rayt~ // https://urait.ru/book/1"),
        T("8. ~SP~ 20.13330 ~Nagruzki~ ~i~ ~vozdeystvi7~") }}
EntryExample == T("2. ~Petrov~ ~P~.~P~. ~Fizika~. = ~SPb~.: ~Nauka~, 2020. = 300 ~s~.")
EntryInputs == ShapedEntries \cup OtherEntries

\* documents: the paragraphs and tables of a DOCX file, the text of a PDF file
MaxParas == 3
MaxTextLines == 2
DocLines == {
    T("4.1. ~Osnovna7~ ~literatura~"),
    T("~Dopolnitel4na7~ ~literatura~:"),
    T("5. ~Pereqen4~ ~resursov~"),
    T("1. ~Ivanov~ ~I~.~I~. ~Kurs~  ~lekciy~. = ~M~., 2019."),
    T("~prodoljenie~ ~teksta~."),
    T("2. ~Seti~"),
    T("4.1"),
    T("  "),
    T("~ab~") }
MainTable ==
    <<<<T("#"), T("~Osnovna7~ ~literatura~")>>,
      <<T("1"), T("~Petrov~ ~P~.~P~. ~Fizika~. = ~SPb~.: ~Nauka~, 2020. = 300 ~s~.")>>,
      <<T("2"), T("~Seti~"), T("2019 ~god~")>>,
      <<T(""), T("~ab~")>>,
      <<T("3"), T("~Himi7~")>>>>
SourcesTable ==
    <<<<T("~Avtor~"), T("~Nazvanie~")>>,
      <<T("~Sidorov~ ~S~.~S~."), T("~Himi7~")>>,
      <<T("~!lkin~ ~A~. ~B~."), T("~Kurs~ ~obxey~ ~fiziki~")>>>>
HeaderOnlyTable ==
    <<<<T("~Dopolnitel4na7~ ~literatura~")>>>>
HoursTable ==
    <<<<T("~Razdel~"), T("~Qas3~")>>,
      <<T("~Vvedenie~ ~v~ ~disciplinu~"), T("12")>>>>
DocTables == {<<>>, <<MainTable, HeaderOnlyTable>>, <<HoursTable, SourcesTable>>}
DocxInputs ==
    {[paragraphs |-> ps, tables |-> <<>>] : ps \in StringsUpTo(DocLines, MaxParas)}
        \cup {[paragraphs |-> ps, tables |-> ts] : ps \in StringsUpTo(DocLines, 1), ts \in DocTables}
PdfInputs == {[text |-> JoinLines(ls)] : ls \in StringsUpTo(DocLines, MaxTextLines)}

\* sections and software names for match; the seeds of hash()
MaxSoftware == 2
MaxCalls == 3
MaxSeed == 2
Seeds == 0..MaxSeed
PythonSection == SectionDetail(T("~Razdel~ 1. ~Osnov3~ Python"), T("~Rabota~ ~s~ pandas ~i~ numpy"))
DatabaseSection == SectionDetail(T("~Razdel~ 2. ~Baz3~ ~dann3h~"), T("~Zapros3~ SQL ~iz~ Python"))
ModelSection == SectionDetail(T("~Razdel~ 3. ~Modelirovanie~ ~sistem~"), <<>>)
SectionLists == {
    <<>>,
    <<PythonSection>>,
    <<PythonSection, DatabaseSection>>,
    <<ModelSection, PythonSection, DatabaseSection>>,
    <<ModelSection, ModelSection>> }
SoftwareNames == {T("Python 3.10"), T("MATLAB"), T("~KOMPAS~-3D"), T("LibreOffice Writer")}
MatchInputs == [sections : SectionLists, software : StringsUpTo(SoftwareNames, MaxSoftware)]

\* the software names found in a DOCX file (all_sw), the lines of the
\* software block of a PDF file
SoftwareLines == {
    T("Python 3.10"),
    T("PYTHON 3.10"),
    T("1. MATLAB  R2020"),
    T("- ~KOMPAS~-3D."),
    T("~Pereqen4~ ~programmnogo~ ~obespeqeni7~"),
    T("Git"),
    T("R   .") }
LinkInputs ==
    [sections : {<<>>, <<PythonSection, DatabaseSection>>, <<ModelSection, PythonSection, DatabaseSection>>},
     found : StringsUpTo(SoftwareLines, MaxSoftware)]

\* records passed to save_to_db: the default record, a record whose
\* sections are not in the order of their names, and a record with two equal
\* sections and a software name listed twice
MaxStoreCalls == 3
Hours(l, p, b, s) == [lectures |-> T(l), practice |-> T(p), labs |-> T(b), self_study |-> T(s)]
StoredEntry == _parse_entry(EntryExample)
PhysicsRecord ==
    [DisciplineData EXCEPT
        !.name = T("~Fizika~"),
        !.sections = <<[name |-> T("~Tema~ 2. ~Optika~"), content |-> T("~Linz3~"),
                        hours |-> Hours("4", "2", "0", "6"), linked_software |-> <<T("MATLAB")>>],
                       [name |-> T("~Tema~ 1. ~Mehanika~"), content |-> <<>>,
                        hours |-> Hours("2", "2", "4", "8"),
                        linked_software |-> <<T("Python 3.10"), T("MATLAB")>>]>>,
        !.software = <<T("Python 3.10"), T("MATLAB")>>,
        !.outcomes = <<T("~UK~-1")>>,
        !.literature = [main |-> <<StoredEntry>>, additional |-> <<>>]]
RepeatedRecord ==
    [DisciplineData EXCEPT
        !.name = T("~Himi7~"),
        !.sections = <<[SectionDetail(T("~Vvedenie~"), <<>>) EXCEPT !.linked_software = <<T("MATLAB")>>],
                       [SectionDetail(T("~Analiz~"), T("~Metod3~")) EXCEPT !.hours = Hours("1", "0", "0", "0")],
                       [SectionDetail(T("~Vvedenie~"), <<>>) EXCEPT !.linked_software = <<T("MATLAB")>>]>>,
        !.software = <<T("MATLAB"), T("MATLAB")>>,
        !.literature = [main |-> <<LiteratureEntry(T("~Kurs~ ~himii~. 2001"))>>,
                        additional |-> <<StoredEntry>>]]
StoreRecords == {PhysicsRecord, RepeatedRecord}

\* save_to_db as a whole: the database after the inserts of steps[i..] and
\* the commit, with n identifiers issued before
RECURSIVE Saved(_, _, _, _, _)
Saved(base, a, loc, n, i) ==
    IF i > Len(InsertSteps) THEN base
    ELSE Saved(Inserted(base, InsertSteps[i], StepRows(InsertSteps[i], a, loc, n, RowCount(InsertSteps[i], a))),
               a, StepLocals(InsertSteps[i], a, loc, n, RowCount(InsertSteps[i], a)),
               n + StepIds(InsertSteps[i], RowCount(InsertSteps[i], a)), i + 1)

\* the database file the server starts with: it holds the record an earlier
\* run of the server saved
EarlierCall == [file_id |-> uuid4(0), filename |-> T("rpd.pdf"), file_size |-> 1, data |-> RepeatedRecord]
EarlierDb == Saved(EmptyDb, EarlierCall, NoLocals, 1, 1)
EarlierIds ==
    2 + Len(RepeatedRecord.sections) + Len(RepeatedRecord.software)
      + Len(Literature(RepeatedRecord.literature)) + Len(RepeatedRecord.outcomes)
EarlierCalls ==
    <<[fn |-> "save_to_db", file_id |-> EarlierCall.file_id, data |-> EarlierCall.data,
       outcome |-> "returned"]>>


\* uploads of the analyze endpoint: a file name, whether the file can be
\* opened, and what the parser finds in it
MaxRequests == 2
SyllabusDocument ==
    [name |-> T("~Informatika~"), description |-> T("~Osnov3~ ~programmirovani7~"),
     goals |-> T("~Izuqenie~ ~algoritmov~"), outcomes |-> <<T("~UK~-1")>>,
     sections |-> <<[name |-> PythonSection.name, content |-> PythonSection.content,
                     hours |-> Hours("4", "2", "0", "6")],
                    [name |-> DatabaseSection.name, content |-> DatabaseSection.content,
                     hours |-> Hours("2", "2", "4", "8")]>>,
     found |-> <<T("Python 3.10"), T("~KOMPAS~-3D")>>,
     literature |-> [main |-> <<StoredEntry>>, additional |-> <<>>]]
ShortDocument ==
    [name |-> T("~Istori7~"), description |-> <<>>, goals |-> <<>>, outcomes |-> <<>>,
     sections |-> <<[name |-> ModelSection.name, content |-> <<>>, hours |-> HoursDetail]>>,
     found |-> <<T("1. MATLAB  R2020")>>,
     literature |-> LiteratureList]
Upload(filename, corrupt, document) ==
    [filename |-> T(filename), corrupt |-> corrupt, document |-> document]
Uploads == {
    Upload("rpd.docx", FALSE, SyllabusDocument),
    Upload("rpd.DOCX", TRUE, ShortDocument),
    Upload("docs/plan.v2.pdf", FALSE, ShortDocument),
    Upload("rpd.pdf", TRUE, SyllabusDocument),
    Upload("docx/.pdf", FALSE, SyllabusDocument) }

-----------------------------------------------------------------------------
(* Calls of the pure functions                                              *)

Called(f) == fn = f /\ pc = "called"
Returned(f) == fn = f /\ pc = "returned"
Return(v) == ret' = v /\ pc' = "returned" /\ UNCHANGED <<dbvars, servervars, fn, arg, segvars, linkvars>>
\* the locals of the literature segmentation before its first line
Segmentation == state = "idle" /\ buf = <<>> /\ result = LiteratureList /\ pos = 1
\* no software, no sections, no call of match yet
Unlinked == hashseed = 0 /\ calls = <<>> /\ data = DisciplineData
\* no connection is open and the server has no request
Closed == db = EmptyDb /\ journal = <<>> /\ uuids = 0 /\ locals = NoLocals
Unserved == requests = <<>> /\ running = 0 /\ heap = <<>>
CallOf(f, inputs) ==
    fn = f /\ arg \in inputs /\ ret = None /\ pc = "called" /\ Segmentation /\ Unlinked /\ Closed /\ Unserved

Call_clean == Called("clean") /\ Return(clean(arg))

InitClean == CallOf("clean", CleanInputs)
NextClean == Call_clean
SpecClean == InitClean /\ [][NextClean]_vars

Call__parse_entry == Called("_parse_entry") /\ Return(_parse_entry(arg.raw))

InitEntry == CallOf("_parse_entry", EntryInputs)
NextEntry == Call__parse_entry
SpecEntry == InitEntry /\ [][NextEntry]_vars

Call__merge == Called("_merge") /\ Return(_merge(arg))

InitMerge == CallOf("_merge", MergeInputs)
NextMerge == Call__merge
SpecMerge == InitMerge /\ [][NextMerge]_vars

\* split_title_body applied to title + " " + content
Call_split_section_name_content ==
    /\ Called("split_section_name_content")
    /\ Return(split_section_name_content(arg.title \o <<" ">> \o arg.content))

InitSplit == CallOf("split_section_name_content", SplitInputs)
NextSplit == Call_split_section_name_content
SpecSplit == InitSplit /\ [][NextSplit]_vars

Call_is_header_row == Called("is_header_row") /\ Return(is_header_row(arg))
Call_is_skip_row == Called("is_skip_row") /\ Return(is_skip_row(arg))

InitRows ==
    \/ CallOf("is_header_row", RowInputs)
    \/ CallOf("is_skip_row", RowInputs)
NextRows == Call_is_header_row \/ Call_is_skip_row
SpecRows == InitRows /\ [][NextRows]_vars

Call_classify_discipline ==
    Called("classify_discipline") /\ Return(classify_discipline(arg[1], arg[2], arg[3]))

InitClassify == CallOf("classify_discipline", ClassifyInputs)
NextClassify == Call_classify_discipline
SpecClassify == InitClassify /\ [][NextClassify]_vars

-----------------------------------------------------------------------------
(* The literature of a document, step by step: the loop of                  *)
(* extract_from_paragraphs (DOCX) and extract_from_text (PDF) line by line, *)
(* then, for DOCX, the table fallback and the 4.1 / 4.2 fallback            *)

Lines == IF fn = "parse_pdf_regex" THEN SplitLines(arg.text) ELSE arg.paragraphs
InLoop == pc = "lines" /\ pos <= Len(Lines)
\* t = clean(para.text), t = clean(ln)
Line == clean(Lines[pos])
NextLine == pos' = pos + 1 /\ UNCHANGED <<dbvars, servervars, fn, arg, ret, pc, linkvars>>

\* if not t: continue
SkipEmpty ==
    /\ InLoop /\ Line = <<>>
    /\ NextLine /\ UNCHANGED <<state, buf, result>>

\* if cls._is_main(t): ...
MainHeader ==
    /\ InLoop /\ Line # <<>> /\ _is_main(Line)
    /\ result' = FlushInto(result, state, buf, {"additional"})
    /\ state' = "main" /\ buf' = <<>>
    /\ NextLine

\* if cls._is_add(t): ...
AdditionalHeader ==
    /\ InLoop /\ Line # <<>> /\ ~_is_main(Line) /\ _is_add(Line)
    /\ result' = FlushInto(result, state, buf, {"main"})
    /\ state' = "additional" /\ buf' = <<>>
    /\ NextLine

\* if cls._is_stop(t): ...
StopHeader ==
    /\ InLoop /\ Line # <<>> /\ ~_is_main(Line) /\ ~_is_add(Line) /\ _is_stop(Line)
    /\ result' = FlushInto(result, state, buf, {"main", "additional"})
    /\ state' = "done" /\ buf' = <<>>
    /\ NextLine

\* if state in ('main', 'additional') and len(t) >= 3: buf.append(t)
CollectLine ==
    /\ InLoop /\ Line # <<>> /\ ~_is_main(Line) /\ ~_is_add(Line) /\ ~_is_stop(Line)
    /\ buf' = IF state \in {"main", "additional"} /\ Len(Line) >= MinLineLen
              THEN Append(buf, Line) ELSE buf
    /\ NextLine /\ UNCHANGED <<state, result>>

\* after the loop: the last flush; extract_from_text returns to
\* parse_pdf_regex, extract_from_paragraphs to parse_docx_structural
EndOfLines ==
    /\ pc = "lines" /\ pos > Len(Lines)
    /\ result' = FlushInto(result, state, buf, {"main", "additional"})
    /\ IF fn = "parse_pdf_regex"
       THEN pc' = "returned" /\ ret' = result'
       ELSE pc' = "tables" /\ ret' = ret
    /\ UNCHANGED <<dbvars, servervars, fn, arg, state, buf, pos, linkvars>>

Entries(res) == Len(res.main) + Len(res.additional)

\* if len(main) + len(additional) < 2: the entries of the tables are added
TablesFallback ==
    /\ pc = "tables"
    /\ LET table_lit == extract_from_tables(arg.tables) IN
       result' = IF Entries(result) < 2
                 THEN [main |-> result.main \o table_lit.main,
                       additional |-> result.additional \o table_lit.additional]
                 ELSE result
    /\ pc' = "legacy"
    /\ UNCHANGED <<dbvars, servervars, fn, arg, ret, state, buf, pos, linkvars>>

\* if len(main) + len(additional) < 1: the numbered paragraphs under 4.1 and 4.2
LegacyFallback ==
    /\ pc = "legacy"
    /\ result' = IF Entries(result) < 1 THEN LegacyLoop(arg.paragraphs, 1, "None", result)
                 ELSE result
    /\ pc' = "returned" /\ ret' = result'
    /\ UNCHANGED <<dbvars, servervars, fn, arg, state, buf, pos, linkvars>>

InitLiterature ==
    /\ \/ fn = "parse_docx_structural" /\ arg \in DocxInputs
       \/ fn = "parse_pdf_regex" /\ arg \in PdfInputs
    /\ ret = None /\ pc = "lines" /\ Segmentation /\ Unlinked /\ Closed /\ Unserved
NextLiterature ==
    \/ SkipEmpty \/ MainHeader \/ AdditionalHeader \/ StopHeader \/ CollectLine
    \/ EndOfLines \/ TablesFallback \/ LegacyFallback
SpecLiterature == InitLiterature /\ [][NextLiterature]_vars

-----------------------------------------------------------------------------
(* SoftwareMatcher.match called on a (sections, software) input, then       *)
(* again on an identical input or on its own output, in one process         *)

Linked(sections) == [data EXCEPT !.sections = sections]

\* the first call; match writes the sections it is given and returns them
Match ==
    /\ pc = "called" /\ fn = "match"
    /\ data' = Linked(match(data.sections, data.software))
    /\ ret' = data'.sections
    /\ calls' = Append(calls, "input")
    /\ pc' = "returned"
    /\ UNCHANGED <<dbvars, servervars, fn, arg, segvars, hashseed>>

\* one more call, on sections and software equal to the first input
MatchSameInput ==
    /\ pc = "returned" /\ fn = "match" /\ Len(calls) < MaxCalls
    /\ ret' = match(arg.sections, arg.software)
    /\ calls' = Append(calls, "input")
    /\ UNCHANGED <<dbvars, servervars, fn, arg, pc, segvars, hashseed, data>>

\* one more call, on the sections the last call returned
MatchOwnOutput ==
    /\ pc = "returned" /\ fn = "match" /\ Len(calls) < MaxCalls
    /\ data' = Linked(match(ret, data.software))
    /\ ret' = data'.sections
    /\ calls' = Append(calls, "output")
    /\ UNCHANGED <<dbvars, servervars, fn, arg, pc, segvars, hashseed>>

InitMatch ==
    /\ fn = "match" /\ arg \in MatchInputs /\ ret = None /\ pc = "called"
    /\ Segmentation /\ Closed /\ Unserved
    /\ hashseed \in Seeds /\ calls = <<>>
    /\ data = [DisciplineData EXCEPT !.software = arg.software, !.sections = arg.sections]
NextMatch == Match \/ MatchSameInput \/ MatchOwnOutput
SpecMatch == InitMatch /\ [][NextMatch]_vars

-----------------------------------------------------------------------------
(* The software list of a record and the call of match at the end of        *)
(* parse_docx_structural and parse_pdf_regex                                *)

\* parse_docx_structural: the names found, without duplicates
DocxSoftware ==
    /\ pc = "software" /\ fn = "parse_docx_structural"
    /\ data' = [data EXCEPT !.software = DedupSoftware(arg.found, 1, <<>>)]
    /\ pc' = "link"
    /\ UNCHANGED <<dbvars, servervars, fn, arg, ret, segvars, hashseed, calls>>

\* parse_pdf_regex: the lines of the software block
PdfSoftwareBlock ==
    /\ pc = "software" /\ fn = "parse_pdf_regex"
    /\ data' = [data EXCEPT !.software = PdfSoftware(arg.found, 1, <<>>)]
    /\ pc' = "link"
    /\ UNCHANGED <<dbvars, servervars, fn, arg, ret, segvars, hashseed, calls>>

\* data.sections = SoftwareMatcher.match(data.sections, data.software); return data
LinkSoftware ==
    /\ pc = "link"
    /\ data' = Linked(match(data.sections, data.software))
    /\ ret' = data'
    /\ calls' = Append(calls, "input")
    /\ pc' = "returned"
    /\ UNCHANGED <<dbvars, servervars, fn, arg, segvars, hashseed>>

InitLink ==
    /\ fn \in {"parse_docx_structural", "parse_pdf_regex"} /\ arg \in LinkInputs
    /\ ret = None /\ pc = "software"
    /\ Segmentation /\ Closed /\ Unserved
    /\ hashseed \in Seeds /\ calls = <<>>
    /\ data = [DisciplineData EXCEPT !.sections = arg.sections]
NextLink == DocxSoftware \/ PdfSoftwareBlock \/ LinkSoftware
SpecLink == InitLink /\ [][NextLink]_vars

\* analyze: nodes, edges = build_graph(data), for the record a parser returned
BuildGraph ==
    /\ pc = "returned" /\ fn \in {"parse_docx_structural", "parse_pdf_regex"}
    /\ result' = build_graph(data, <<>>)
    /\ pc' = "graph"
    /\ UNCHANGED <<dbvars, servervars, fn, arg, ret, state, buf, pos, hashseed, calls, data>>
NextGraph == NextLink \/ BuildGraph
SpecGraph == InitLink /\ [][NextGraph]_vars

-----------------------------------------------------------------------------
(* build_multi_graph: the graph of several records.  Node identifiers are   *)
(* the strings the f-strings of the code make.                              *)

MinSharedLen == 5
DirectionLabelLen == 40

\* str(n)
RECURSIVE Dec(_)
Dec(n) ==
    IF n < 10 THEN <<StrChars(Digits)[n + 1]>>
    ELSE Dec(n \div 10) \o <<StrChars(Digits)[(n % 10) + 1]>>

\* f"{prefix}root", f"{prefix}sec-{i}", f"{prefix}sw-{idx}", f"{prefix}lm-{i}",
\* f"{prefix}la-{i}": an identifier of build_graph(disc, prefix) as a string
NodeId(prefix, id) ==
    IF Len(id) = Len(prefix) + 1 THEN prefix \o StrChars(id[Len(id)])
    ELSE prefix \o StrChars(id[Len(id) - 1]) \o <<"-">> \o Dec(id[Len(id)])
\* the prefix without the position in the group
DisciplinePrefix_direction_only(dir_idx, disc_idx) == <<"d">> \o Dec(dir_idx) \o <<"-">>
\* prefix = f"d{dir_idx}-{disc_idx}-"
DisciplinePrefix(dir_idx, disc_idx) == <<"d">> \o Dec(dir_idx) \o <<"-">> \o Dec(disc_idx) \o <<"-">>
\* f"dir-{dir_idx}"
DirectionId(dir_idx) == T("dir-") \o Dec(dir_idx)
SuperRoot == T("super-root")

\* disc_nodes, disc_edges = build_graph(disc, prefix)
DisciplineNodes(prefix, nodes) ==
    [n \in 1..Len(nodes) |-> [nodes[n] EXCEPT !.id = NodeId(prefix, nodes[n].id)]]
DisciplineEdges(prefix, edges) ==
    [e \in 1..Len(edges) |-> [edges[e] EXCEPT !.source = NodeId(prefix, edges[e].source),
                                              !.target = NodeId(prefix, edges[e].target)]]

\* dir_key = disc.direction or disc.edu_program or "Без направления"
dir_key(disc) ==
    IF disc.direction # <<>> THEN disc.direction
    ELSE IF disc.edu_program # <<>> THEN disc.edu_program
    ELSE T("~Bez~ ~napravleni7~")

\* the directions dict: its keys in the order of their first discipline, each
\* with its disciplines in the order of the list
directions(disciplines) ==
    LET first == SelectSeq([i \in 1..Len(disciplines) |-> i],
                           LAMBDA i : \A j \in 1..(i - 1) : dir_key(disciplines[j]) # dir_key(disciplines[i]))
    IN [k \in 1..Len(first) |->
            [name |-> dir_key(disciplines[first[k]]),
             discs |-> SelectSeq(disciplines,
                                 LAMBDA d : dir_key(d) = dir_key(disciplines[first[k]]))]]

\* the nodes and edges of the disciplines dir_discs[j..] of direction dir_idx
RECURSIVE DirectionGraph(_, _, _, _)
DirectionGraph(graph, dir_idx, dir_discs, j) ==
    IF j > Len(dir_discs) THEN graph
    ELSE DirectionGraph(
            [nodes |-> graph.nodes
                        \o DisciplineNodes(DisciplinePrefix(dir_idx, j - 1),
                                           GraphNodes(dir_discs[j], DisciplinePrefix(dir_idx, j - 1))),
             edges |-> graph.edges
                        \o DisciplineEdges(DisciplinePrefix(dir_idx, j - 1),
                                           GraphEdges(dir_discs[j], DisciplinePrefix(dir_idx, j - 1)))
                        \o <<GraphEdge(DirectionId(dir_idx),
                                       DisciplinePrefix(dir_idx, j - 1) \o T("root"), None)>>],
            dir_idx, dir_discs, j + 1)

\* the direction node, its edge from the super-root, and its disciplines
WithDirection(graph, dir_idx, dir) ==
    DirectionGraph(
        [nodes |-> Append(graph.nodes,
                          GraphNode(DirectionId(dir_idx), Cut(dir.name, DirectionLabelLen), "direction")),
         edges |-> Append(graph.edges, GraphEdge(SuperRoot, DirectionId(dir_idx), None))],
        dir_idx, dir.discs, 1)

\* name_norm = re.sub(r'^(раздел|тема|модуль)\s+\d+\.?\s*[:.]?\s*', '',
\* name.lower().strip()).strip()
SectionNumber ==
    Cat(<<Alt(<<Lit(T("~razdel~")), Lit(T("~tema~")), Lit(T("~modul4~"))>>),
          Plus(AnySpace), Plus(AnyDigit), Opt(Lit(T("."))), Star(AnySpace),
          Opt(Cls({":", "."})), Star(AnySpace)>>)
Unprefixed(name_lower, ends) == IF ends = {} THEN name_lower ELSE From(name_lower, MaxOf(ends))
name_norm(name) == Strip(Unprefixed(Strip(Lower(name)), Ends(SectionNumber, Strip(Lower(name)), 1)))

\* the section nodes of all_nodes in their order, each with the name in its data
RECURSIVE DisciplineSections(_, _, _, _)
DisciplineSections(dirs, dir_idx, j, i) ==
    IF dir_idx > Len(dirs) THEN <<>>
    ELSE IF j > Len(dirs[dir_idx].discs) THEN DisciplineSections(dirs, dir_idx + 1, 1, 1)
    ELSE IF i > Len(dirs[dir_idx].discs[j].sections) THEN DisciplineSections(dirs, dir_idx, j + 1, 1)
    ELSE <<[id |-> DisciplinePrefix(dir_idx - 1, j - 1) \o T("sec-") \o Dec(i - 1),
            name |-> name_norm(dirs[dir_idx].discs[j].sections[i].name)]>>
         \o DisciplineSections(dirs, dir_idx, j, i + 1)

\* the section_names dict: the normalized names longer than MinSharedLen in the
\* order of their first node, each with the ids of its nodes
section_names(secs) ==
    LET long == SelectSeq(secs, LAMBDA s : Len(s.name) > MinSharedLen)
        first == SelectSeq([i \in 1..Len(long) |-> i],
                           LAMBDA i : \A j \in 1..(i - 1) : long[j].name # long[i].name)
    IN [k \in 1..Len(first) |->
            [name |-> long[first[k]].name,
             ids |-> LET same == SelectSeq(long, LAMBDA s : s.name = long[first[k]].name)
                     IN [n \in 1..Len(same) |-> same[n].id]]]

\* for i in range(len(ids)): for j in range(i + 1, len(ids)): the edge
\* "общий раздел" from ids[i] to ids[j]
RECURSIVE SharedPairs(_, _, _)
SharedPairs(ids, i, j) ==
    IF i > Len(ids) THEN <<>>
    ELSE IF j > Len(ids) THEN SharedPairs(ids, i + 1, i + 2)
    ELSE <<GraphEdge(ids[i], ids[j], T("~obxiy~ ~razdel~"))>> \o SharedPairs(ids, i, j + 1)
RECURSIVE SharedEdges(_, _)
SharedEdges(names, k) ==
    IF k > Len(names) THEN <<>>
    ELSE SharedPairs(names[k].ids, 1, 2) \o SharedEdges(names, k + 1)


\* records for the graphs of several files: the two stored records, both
\* without direction and program, two records of one direction (one names
\* it as its program), and a record of another direction; OpticsRecord links
\* a name that its software list does not hold
MaxDisciplines == 3
AppliedRecord ==
    [DisciplineData EXCEPT
        !.name = T("~Prikladna7~ ~fizika~"), !.direction = T("03.03.02"),
        !.sections = <<[SectionDetail(T("~Razdel~ 2: ~Optika~"), <<>>) EXCEPT !.linked_software = <<T("MATLAB")>>],
                       SectionDetail(T("~Itogi~"), <<>>)>>,
        !.software = <<T("MATLAB")>>]
OpticsRecord ==
    [DisciplineData EXCEPT
        !.name = T("~Optika~"), !.edu_program = T("03.03.02"),
        !.sections = <<[SectionDetail(T("~Modul4~ 3 ~Optika~"), <<>>) EXCEPT !.linked_software = <<T("Git")>>]>>,
        !.software = <<T("Zemax")>>]
SurveyRecord ==
    [DisciplineData EXCEPT
        !.name = T("~Obzor~"), !.direction = T("09.03.01"), !.edu_program = T("03.03.02"),
        !.sections = <<SectionDetail(T("~itogi~"), <<>>), SectionDetail(T("~Vvedenie~"), <<>>)>>]
GraphRecords == {PhysicsRecord, RepeatedRecord, AppliedRecord, OpticsRecord, SurveyRecord}


\* build_multi_graph step by step: result holds all_nodes and all_edges, buf
\* the directions dict, pos the number of the next direction, calls the
\* section_names dict
MultiFrame == UNCHANGED <<dbvars, servervars, fn, arg, state, hashseed, data>>
MultiStep(step) == fn = "build_multi_graph" /\ pc = step

\* the super-root node and the loop that fills directions
GroupDirections ==
    /\ MultiStep("called")
    /\ IF Len(arg) = 0
       THEN pc' = "returned" /\ ret' = result /\ UNCHANGED <<result, buf>>
       ELSE /\ result' = [nodes |-> <<GraphNode(SuperRoot, T("~Disciplin3~"), "super_root")>>,
                          edges |-> <<>>]
            /\ buf' = directions(arg)
            /\ pc' = "directions" /\ UNCHANGED ret
    /\ UNCHANGED <<pos, calls>> /\ MultiFrame

\* one direction of the loop over directions.items()
AddDirection ==
    /\ MultiStep("directions") /\ pos <= Len(buf)
    /\ result' = WithDirection(result, pos - 1, buf[pos])
    /\ pos' = pos + 1
    /\ UNCHANGED <<pc, ret, buf, calls>> /\ MultiFrame

\* the loop over all_nodes that fills section_names
IndexSections ==
    /\ MultiStep("directions") /\ pos > Len(buf)
    /\ calls' = section_names(DisciplineSections(buf, 1, 1, 1))
    /\ pc' = "shared"
    /\ UNCHANGED <<ret, buf, pos, result>> /\ MultiFrame

\* the loop over section_names.items(); return all_nodes, all_edges
LinkSections ==
    /\ MultiStep("shared")
    /\ result' = [result EXCEPT !.edges = result.edges \o SharedEdges(calls, 1)]
    /\ ret' = result'
    /\ pc' = "returned"
    /\ UNCHANGED <<buf, pos, calls>> /\ MultiFrame

InitMulti ==
    /\ fn = "build_multi_graph" /\ arg \in StringsUpTo(GraphRecords, MaxDisciplines) \ {<<>>}
    /\ ret = None /\ pc = "called"
    /\ state = "idle" /\ buf = <<>> /\ pos = 1 /\ result = [nodes |-> <<>>, edges |-> <<>>]
    /\ Unlinked /\ Closed /\ Unserved
NextMulti == GroupDirections \/ AddDirection \/ IndexSections \/ LinkSections
SpecMulti == InitMulti /\ [][NextMulti]_vars

-----------------------------------------------------------------------------
(* One section table of parse_docx_structural, row by row: the tests that   *)
(* drop a row, the name and content of a kept row, its hours.  The          *)
(* classifiers called and the sections appended are logged in calls.        *)

TableLoop(step) == fn = "parse_docx_structural" /\ pc = step
Row == cells_text(arg[pos])
Evaluated(test, value) == calls' = Append(calls, [row |-> pos, test |-> test, value |-> value])
\* continue: the next row, or the end of the table
Continue ==
    /\ pos' = pos + 1 /\ buf' = <<>>
    /\ pc' = IF pos < Len(arg) THEN "skip" ELSE "returned"
Goto(step) == pc' = step /\ UNCHANGED <<pos, buf>>
TableFrame == UNCHANGED <<dbvars, servervars, fn, arg, ret, state, hashseed, data>>

\* lines 1211-1226: the table is taken when it has two hour columns
ScanTable ==
    /\ TableLoop("called")
    /\ pc' = IF IsSectionTable(arg) THEN "skip" ELSE "returned"
    /\ UNCHANGED <<pos, buf, result, calls>> /\ TableFrame

\* if not cells: continue;  if is_skip_row(cells_text): continue
TestSkip ==
    /\ TableLoop("skip")
    /\ IF Len(arg[pos]) = 0 THEN Continue /\ UNCHANGED calls
       ELSE /\ Evaluated("is_skip_row", is_skip_row(Row))
            /\ IF is_skip_row(Row) THEN Continue ELSE Goto("header")
    /\ UNCHANGED result /\ TableFrame

\* if is_header_row(cells_text): continue
TestHeader ==
    /\ TableLoop("header")
    /\ Evaluated("is_header_row", is_header_row(Row))
    /\ IF is_header_row(Row) THEN Continue ELSE Goto("first")
    /\ UNCHANGED result /\ TableFrame

\* if len(c0) < 2: continue
TestFirstCell ==
    /\ TableLoop("first")
    /\ IF Len(Row[1]) < MinFirstCell THEN Continue ELSE Goto("name")
    /\ UNCHANGED <<result, calls>> /\ TableFrame

NamedAs(nc) ==
    IF Len(nc[1]) < MinNameLen THEN Continue
    ELSE pc' = "hours" /\ buf' = nc /\ UNCHANGED pos

\* lines 1244-1272: final_name, final_content; if len(final_name) < 3: continue
NameRow ==
    /\ TableLoop("name")
    /\ \E ct \in {Row} : \E nc \in {NameContent(ct, hours_indices(arg)[1])} :
            NamedAs(Correction(nc))
    /\ UNCHANGED <<result, calls>> /\ TableFrame

\* lines 1274-1297: the hours, and data.sections.append(SectionDetail(...))
AppendRow ==
    /\ TableLoop("hours")
    /\ \E ct \in {Row} : result' = Append(result, RowSection(buf, ct, hours_indices(arg)))
    /\ Evaluated("section", TRUE)
    /\ Continue
    /\ TableFrame

InitTable ==
    /\ fn = "parse_docx_structural" /\ arg \in Tables /\ ret = None /\ pc = "called"
    /\ state = "idle" /\ buf = <<>> /\ result = <<>> /\ pos = 1
    /\ Unlinked /\ Closed /\ Unserved
NextTable == ScanTable \/ TestSkip \/ TestHeader \/ TestFirstCell \/ NameRow \/ AppendRow
SpecTable == InitTable /\ [][NextTable]_vars

\* the same row loop on tables with up to five hour columns
FiveRow == <<T("~Tema~ 2. ~Seti~"), T("2"), T("4"), T("6"), T("8")>>
LongRow == <<T("~Tema~ 3. ~Baz3~ ~dann3h~"), T("1200"), T("~aud~."), T("6")>>
HourRowExamples == {CaptionRow, FiveRow, LongRow, NumberRow, SingleRow}
HourTables == StringsUpTo(HourRowExamples, MaxTableRows)
InitHours ==
    /\ fn = "parse_docx_structural" /\ arg \in HourTables /\ ret = None /\ pc = "called"
    /\ state = "idle" /\ buf = <<>> /\ result = <<>> /\ pos = 1
    /\ Unlinked /\ Closed /\ Unserved
SpecHours == InitHours /\ [][NextTable]_vars

-----------------------------------------------------------------------------
(* SpecExtract: extract_description_docx and extract_goals_docx, one step   *)
(* for every paragraph of the first loop and one for every later method.    *)
(* calls records the methods that have run, each with the value it found.   *)

MaxDocParas == 3

Heading == T("~Annotaci7~")
Annotated == T("~Annotaci7~ ~kursa~: ~osnov3~ ~prava~")
Overview == T("~Kurs~ ~znakomit~ ~studentov~ ~s~ ~metodami~ ~analiza~ ~i~ ~obrabotki~ ~dann3h~")
NextHeading == T("2. ~Mesto~ ~disciplin3~")
Minuted == T("~Protokol~: ~annotaci7~ ~kursa~ ~izuqaet~ ~osnov3~ ~prava~")
GoalSentence == T("~Cel46~ ~izuqeni7~ ~disciplin3~ ~7vl7ets7~ ~razvitie~ ~m3wleni7~.")
GoalHeading == T("~Celi~:")
GoalItem == T("- ~razvitie~ ~logiqeskogo~ ~m3wleni7~")
GoalsLine == T("~Celi~ ~kursa~: ~razvitie~ ~uma~")
NumberOnly == T("1.4")
DescriptionParagraphs == {Heading, Annotated, Overview, NextHeading, Minuted, NumberOnly}
GoalsParagraphs == {GoalSentence, GoalHeading, GoalItem, GoalsLine, NextHeading}
Documents(paragraphs) == StringsUpTo(paragraphs, MaxDocParas) \ {<<>>}

paragraphs == arg.paragraphs
full_text == arg.full_text
\* t = clean(p.text)
Paragraph == clean(paragraphs[pos])

Method(step) == fn \in {"extract_description_docx", "extract_goals_docx"} /\ pc = step
InParagraphs == Method("method1") /\ pos <= Len(paragraphs)
Skipped == Len(Paragraph) = 0 \/ is_noise_text(Paragraph)
Collecting == InParagraphs /\ ~Skipped /\ state = "collecting"
NextParagraph == pos' = pos + 1 /\ UNCHANGED <<pc, ret, calls>>
\* break
LeaveLoop == pc' = "result" /\ UNCHANGED <<pos, ret, calls>>
Attempted(method, value, ok) ==
    calls' = Append(calls, [method |-> method, value |-> value, ok |-> ok])
ReturnValue(value) == ret' = value /\ pc' = "returned"
ExtractFrame == UNCHANGED <<dbvars, servervars, fn, arg, result, hashseed, data>>

\* if not t or is_noise_text(t): continue
SkipParagraph ==
    /\ InParagraphs /\ Skipped
    /\ NextParagraph
    /\ UNCHANGED <<state, buf>>
    /\ ExtractFrame

\* state 'idle', no start pattern found in the paragraph
PassParagraph ==
    /\ InParagraphs /\ ~Skipped /\ state = "idle"
    /\ ~AnyFound(StartPatterns, Paragraph)
    /\ NextParagraph
    /\ UNCHANGED <<state, buf>>
    /\ ExtractFrame

\* state 'idle', a start pattern found: the rest of the line is collected
StartCollecting ==
    /\ InParagraphs /\ ~Skipped /\ state = "idle"
    /\ AnyFound(StartPatterns, Paragraph)
    /\ state' = "collecting"
    /\ buf' = IF Remainder(Paragraph) = <<>> THEN buf ELSE Append(buf, Remainder(Paragraph))
    /\ NextParagraph
    /\ ExtractFrame

\* state 'collecting', the paragraph is the heading of another section
StopCollecting ==
    /\ Collecting
    /\ AnyFound(StopPatterns, Paragraph)
    /\ LeaveLoop
    /\ UNCHANGED <<state, buf>>
    /\ ExtractFrame

SkipColonLine ==
    /\ Collecting
    /\ ~AnyFound(StopPatterns, Paragraph)
    /\ ColonLine(Paragraph)
    /\ NextParagraph
    /\ UNCHANGED <<state, buf>>
    /\ ExtractFrame

Collect ==
    /\ Collecting
    /\ ~AnyFound(StopPatterns, Paragraph)
    /\ ~ColonLine(Paragraph)
    /\ buf' = Append(buf, Paragraph)
    /\ IF Len(JoinSp(Append(buf, Paragraph))) > MaxBufLen THEN LeaveLoop ELSE NextParagraph
    /\ UNCHANGED state
    /\ ExtractFrame

EndOfParagraphs ==
    /\ Method("method1") /\ pos > Len(paragraphs)
    /\ LeaveLoop
    /\ UNCHANGED <<state, buf>>
    /\ ExtractFrame

Methods_without_sentences ==
    IF IsDescription THEN <<"method1", "method2", "method3">>
    ELSE <<"method1", "method2", "method4">>
\* the methods in the order in which they run
Methods ==
    IF IsDescription THEN <<"method1", "method2", "method3">>
    ELSE <<"method1", "method2", "sentences", "method4">>
\* the method that follows one that has found nothing
After(k) == IF k < Len(Methods) THEN Methods[k + 1] ELSE "returned"
FallThrough(k) ==
    /\ pc' = After(k)
    /\ ret' = IF k < Len(Methods) THEN ret ELSE <<>>

Finish(k, name, value, ok) ==
    /\ Attempted(name, value, ok)
    /\ IF ok THEN ReturnValue(value) ELSE FallThrough(k)
    /\ UNCHANGED <<state, buf, pos>>
    /\ ExtractFrame

\* a method that succeeds with any value but the empty one
FinishWith(k, name, value) == Finish(k, name, value, value # <<>>)
FinishAbove(k, name, value, min) == Finish(k, name, value, Len(value) > min)

\* result = ' '.join(buf).strip(); ...; if len(result) > 20: return result
ByParagraphs ==
    /\ Method("result")
    /\ FinishAbove(1, "method1", Joined(buf), MinLen)

\* for pat in patterns: m = pat.search(full_text) ...
ByPatterns ==
    /\ Method("method2")
    /\ FinishWith(2, "method2", TextValue(full_text))

\* description: the first long descriptive paragraph
ByIndicators ==
    /\ Method("method3")
    /\ FinishWith(3, "method3", Indicated(paragraphs))

\* goals: the sentences that state the goal
BySentences ==
    /\ Method("sentences")
    /\ FinishWith(3, "sentences", Stated(full_text))

\* goals: the items listed after a line with the word "цель"
ByItems ==
    /\ Method("method4")
    /\ Finish(4, "method4", Bulleted(paragraphs), GoalItems(paragraphs, 1, FALSE, <<>>) # <<>>)

ExtractCall(name, doc) ==
    /\ fn = name
    /\ arg = [paragraphs |-> doc, full_text |-> full_text_blob(doc)]

InitExtract ==
    /\ \/ \E doc \in Documents(DescriptionParagraphs) : ExtractCall("extract_description_docx", doc)
       \/ \E doc \in Documents(GoalsParagraphs) : ExtractCall("extract_goals_docx", doc)
    /\ ret = None /\ pc = "method1"
    /\ state = "idle" /\ buf = <<>> /\ pos = 1 /\ result = LiteratureList
    /\ Unlinked /\ Closed /\ Unserved

NextExtract ==
    \/ SkipParagraph \/ PassParagraph \/ StartCollecting \/ StopCollecting
    \/ SkipColonLine \/ Collect \/ EndOfParagraphs
    \/ ByParagraphs \/ ByPatterns \/ ByIndicators \/ BySentences \/ ByItems
SpecExtract == InitExtract /\ [][NextExtract]_vars

-----------------------------------------------------------------------------
(* The software list of parse_docx_structural: the collectors over the      *)
(* paragraphs and the tables of the document, the names looked for in its   *)
(* text when they find nothing, and the list without duplicates             *)

\* the lengths that the collectors compare with
MinColonRest == 3
MinItemLen == 2
MinSoftLineLen == 3
MinCleanedLen == 3
HeaderRows == 2
MinSwCellLen == 3
MinFallbackLen == 3

\* re.split(sep, t): the pieces of t between the characters of seps
SplitBy(t, seps) ==
    LET at == {i \in 1..Len(t) : t[i] \in seps}
        cut(k) == IF k = 0 THEN 0
                  ELSE IF k > Cardinality(at) THEN Len(t) + 1
                  ELSE CHOOSE i \in at : Cardinality({j \in at : j <= i}) = k
    IN [k \in 1..(Cardinality(at) + 1) |-> SubSeq(t, cut(k - 1) + 1, cut(k) - 1)]

\* [p.strip().rstrip('.') for p in parts], those longer than MinItemLen appended
RECURSIVE AppendItems(_, _, _)
AppendItems(sw_buffer, parts, k) ==
    IF k > Len(parts) THEN sw_buffer
    ELSE AppendItems(IF Len(RStripChars(Strip(parts[k]), {"."})) > MinItemLen
                     THEN Append(sw_buffer, RStripChars(Strip(parts[k]), {"."}))
                     ELSE sw_buffer, parts, k + 1)

sw_start_markers == <<
    T("~pereqen4~ ~programmnogo~"), T("~programmnoe~ ~obespeqenie~"),
    T("~pereqen4~ ~licenzionnogo~"), T("~programmn3e~ ~sredstva~"),
    T("~programmnoe~ ~i~ ~kommunikacionnoe~"), T("~pereqen4~ ~informacionn3h~ ~tehnologiy~") >>
\* any(marker in t_lower ...) or re.match(r'^5\.2\.?\s', t)
StartsSoftware(t) ==
    \/ AnyIn(sw_start_markers, Lower(t))
    \/ Found(Anchored(Cat(<<Lit(T("5.2")), Opt(Lit(T("."))), AnySpace>>)), t)

\* colon_split = re.split(r'[:：]\s*', t, maxsplit=1); the items of colon_split[1]
AfterColon(t) ==
    LET colons == {i \in 1..Len(t) : t[i] = ":"}
    IN IF colons = {} THEN <<>> ELSE Strip(From(t, MinOf(colons) + 1))
ColonItems(sw_buffer, rest) ==
    IF Len(rest) > MinColonRest THEN AppendItems(sw_buffer, SplitBy(rest, {";", ","}), 1)
    ELSE sw_buffer

sw_end_re == Anchored(Alt(<<
    Cat(<<Cls(Range(T("56789"))), Lit(T(".")), AnyDigit>>),
    Lit(T("~material4no~")),
    Lit(T("~pereqen4~ ~informacion~")),
    Lit(T("~pereqen4~ ~resursov~")),
    Lit(T("~opisanie~ ~material4no~")),
    Lit(T("~obrazovatel4n3e~ ~tehnologii~")),
    Lit(T("~ocenoqn3e~ ~sredstva~")),
    Lit(T("~metodiqeskie~ ~ukazani7~")),
    Lit(T("~pereqen4~ ~uqebno~")),
    Lit(T("~fond~ ~ocenoqn3h~"))>>))
skip_phrases == <<
    T("~pereqen4~"), T("~programmnoe~ ~obespeqenie~"), T("~licenzionnoe~"),
    T("~svobodno~ ~rasprostran~"), T("~pri~ ~neobhodimosti~"), T("~ne~ ~predusmotren~"),
    T("~ne~ ~trebuets7~"), T("~tablica~"), T("~naimenovanie~"), T("# ~p~/~p~") >>

\* cleaned = re.sub(r'^[\d]+[.\)]\s*', '', t).strip(), then
\* re.sub(r'^[-–—•·]\s*', '', cleaned).strip()
Unbulleted(t) ==
    Strip(IF Len(t) > 0 /\ t[1] \in Bullets THEN From(t, SpanEnd(t, 2, SpaceChars)) ELSE t)
Cleaned(t) == Unbulleted(Strip(NoNumber(t)))

\* a line of the software section: its parts between semicolons, or the line
SoftwareLine(sw_buffer, cleaned) ==
    IF Len(cleaned) < MinCleanedLen THEN sw_buffer
    ELSE IF ";" \in Range(cleaned) THEN AppendItems(sw_buffer, SplitBy(cleaned, {";"}), 1)
    ELSE Append(sw_buffer, RStripChars(cleaned, {"."}))

\* extract_software_paragraphs: state == 'soft' and sw_buffer after the
\* paragraph t
SoftAfter(t, soft) ==
    IF t = <<>> THEN soft ELSE IF StartsSoftware(t) THEN TRUE ELSE soft /\ ~Found(sw_end_re, t)
BufferAfter(t, soft, sw_buffer) ==
    IF t = <<>> THEN sw_buffer
    ELSE IF StartsSoftware(t) THEN ColonItems(sw_buffer, AfterColon(t))
    ELSE IF \/ ~soft
            \/ Found(sw_end_re, t)
            \/ Len(t) < MinSoftLineLen
            \/ AnyIn(skip_phrases, Lower(t))
    THEN sw_buffer
    ELSE SoftwareLine(sw_buffer, Cleaned(t))
RECURSIVE SoftwareFrom(_, _, _, _)
SoftwareFrom(doc, i, soft, sw_buffer) ==
    IF i > Len(doc) THEN sw_buffer
    ELSE SoftwareFrom(doc, i + 1, SoftAfter(clean(doc[i]), soft),
                      BufferAfter(clean(doc[i]), soft, sw_buffer))
extract_software_paragraphs(doc) == SoftwareFrom(doc, 1, FALSE, <<>>)

sw_table_markers == <<
    T("~programmnoe~ ~obespeqenie~"), T("~pereqen4~ ~programmnogo~"), T("~licenzionnoe~"),
    T("~naimenovanie~ ~po~"), T("~programmn3e~ ~sredstva~") >>
sw_header_words == <<
    T("#"), T("~naimenovanie~"), T("~p~/~p~"), T("~nazvanie~"), T("~rekvizit3~"),
    T("~licenzi~") >>
license_re == Anchored(Alt(<<Lit(T("~bessroqn~")), Lit(T("~svobodn~")), Lit(T("~licenzi~")), Lit(T("gplv")), Lit(T("mit")), Lit(T("apache")), Lit(T("gnu"))>>))

\* header_text: the cells of the first two rows, in lower case
RECURSIVE CellsText(_, _)
CellsText(cells, k) ==
    IF k > Len(cells) THEN <<>> ELSE <<" ">> \o Lower(clean(cells[k])) \o CellsText(cells, k + 1)
header_text(rows) ==
    CellsText(rows[1], 1) \o (IF Len(rows) > 1 THEN CellsText(rows[2], 1) ELSE <<>>)
is_sw_table(rows) == AnyIn(sw_table_markers, header_text(rows))

\* one of the first two rows that holds a word of a header
HeaderRow(cells, row_idx) ==
    /\ row_idx < HeaderRows
    /\ AnyIn(sw_header_words, Lower(JoinSp([k \in 1..Len(cells) |-> clean(cells[k])])))

\* re.match(r'^\d+\.?$', cell_clean)
NumberCell(t) ==
    /\ SpanEnd(t, 1, DigitChars) > 1
    /\ OptChar(t, SpanEnd(t, 1, DigitChars), {"."}) = Len(t) + 1

\* a cell of a row of a software table
SoftwareCell(sw_list, cell_clean) ==
    IF \/ Len(cell_clean) < MinSwCellLen
       \/ NumberCell(cell_clean)
       \/ Found(license_re, cell_clean)
       \/ Len(Strip(NoNumber(cell_clean))) <= MinItemLen
       \/ Strip(NoNumber(cell_clean)) \in Range(sw_list)
    THEN sw_list ELSE Append(sw_list, Strip(NoNumber(cell_clean)))

RECURSIVE SoftwareCells(_, _, _)
SoftwareCells(sw_list, cells, k) ==
    IF k > Len(cells) THEN sw_list
    ELSE SoftwareCells(SoftwareCell(sw_list, Strip(clean(cells[k]))), cells, k + 1)

RECURSIVE SoftwareRows(_, _, _)
SoftwareRows(sw_list, rows, r) ==
    IF r > Len(rows) THEN sw_list
    ELSE SoftwareRows(IF HeaderRow(rows[r], r - 1) THEN sw_list
                      ELSE SoftwareCells(sw_list, rows[r], 1), rows, r + 1)

\* extract_software_tables: the loop from table i on
RECURSIVE extract_software_tables(_, _, _)
extract_software_tables(tables, i, sw_list) ==
    IF i > Len(tables) THEN sw_list
    ELSE extract_software_tables(tables, i + 1,
            IF Len(tables[i]) < 1 \/ ~is_sw_table(tables[i]) THEN sw_list
            ELSE SoftwareRows(sw_list, tables[i], 1))

\* parse_docx_structural, "Фолбэк из вашего парсера": the lines between a
\* paragraph that starts with 5.2 and one that starts with 6., 5.3, 3. or 2.
LegacyStart == Anchored(Lit(T("5.2")))
LegacyStop == Anchored(Alt(<<Lit(T("6.")), Lit(T("5.3")), Lit(T("3.")), Lit(T("2."))>>))
\* re.match(r"^(\d+\.|-|•)", t) or len(t) > 3
LegacyItem(t) ==
    \/ Found(Anchored(Alt(<<Cat(<<Plus(AnyDigit), Lit(T("."))>>), Lit(T("-")),
                            Lit(<<"BULLET">>)>>)), t)
    \/ Len(t) > MinFallbackLen
\* re.sub(r"^\d+\.\s*", "", t)
Unnumbered(t) ==
    IF SpanEnd(t, 1, DigitChars) > 1 /\ SpanEnd(t, 1, DigitChars) <= Len(t)
          /\ t[SpanEnd(t, 1, DigitChars)] = "."
    THEN From(t, SpanEnd(t, SpanEnd(t, 1, DigitChars) + 1, SpaceChars))
    ELSE t
LegacyAfter(t, soft) ==
    IF Found(LegacyStart, t) THEN TRUE ELSE IF Found(LegacyStop, t) THEN FALSE ELSE soft
LegacyLine(t, soft, found) ==
    IF /\ ~Found(LegacyStart, t) /\ ~Found(LegacyStop, t)
       /\ soft /\ LegacyItem(t) /\ ~Contains(t, T("~Pereqen4~"))
    THEN Append(found, Unnumbered(t)) ELSE found
RECURSIVE sw_fallback(_, _, _, _)
sw_fallback(doc, i, soft, found) ==
    IF i > Len(doc) THEN found
    ELSE sw_fallback(doc, i + 1, LegacyAfter(clean(doc[i]), soft),
                     LegacyLine(clean(doc[i]), soft, found))

\* parse_docx_structural, "Паттерны как последний фолбэк"
known_sw_pats == <<
    Anywhere(Cat(<<Lit(T("microsoft")), Plus(AnySpace), Plus(AnyWord)>>)),
    Anywhere(Cat(<<Lit(T("ms")), Plus(AnySpace), Lit(T("office"))>>)),
    Anywhere(Cat(<<Alt(<<Lit(T("windows")), Lit(T("linux"))>>), Star(AnySpace), Star(AnyDigit)>>)),
    Anywhere(Cat(<<Lit(T("python")), Star(AnySpace), Star(AnyDigit)>>)),
    Anywhere(Lit(T("matlab"))),
    Anywhere(Cat(<<Lit(T("visual")), Plus(AnySpace), Lit(T("studio"))>>)),
    Anywhere(Alt(<<Lit(T("mysql")), Lit(T("postgresql")), Lit(T("mongodb"))>>)),
    Anywhere(Alt(<<Lit(T("~konsul4tantpl5s~")), Lit(T("~garant~"))>>)),
    Anywhere(Cat(<<Lit(T("1~s~")), Cls({":"} \cup SpaceChars), Plus(AnyWord)>>)),
    Anywhere(Alt(<<Lit(T("autocad")), Lit(T("~kompas~")), Lit(T("solidworks"))>>)) >>

\* re.findall(pat, t, re.I): the matches of pat from position from on, each
\* the leftmost one and as long as it can be
RECURSIVE findall(_, _, _)
findall(pat, t, from) ==
    LET starts == {i \in from..Len(t) : Ends(pat.re, t, i) # {}} IN
    IF starts = {} THEN <<>>
    ELSE <<SubSeq(t, MinOf(starts), MaxOf(Ends(pat.re, t, MinOf(starts))) - 1)>>
            \o findall(pat, t, MaxOf(Ends(pat.re, t, MinOf(starts))))

\* mc = clean(m); if mc.lower() not in seen_p: all_sw.append(mc)
RECURSIVE KnownNames(_, _, _)
KnownNames(all_sw, matches, k) ==
    IF k > Len(matches) THEN all_sw
    ELSE KnownNames(IF \E j \in 1..Len(all_sw) : Lower(all_sw[j]) = Lower(clean(matches[k]))
                    THEN all_sw ELSE Append(all_sw, clean(matches[k])), matches, k + 1)
RECURSIVE KnownSoftware(_, _, _)
KnownSoftware(all_sw, text, p) ==
    IF p > Len(known_sw_pats) THEN all_sw
    ELSE KnownSoftware(KnownNames(all_sw, findall(known_sw_pats[p], text, 1), 1), text, p + 1)

SoftwareHeading == T("5.2 ~Programmnoe~ ~obespeqenie~")
SoftwareListed == T("~Pereqen4~ ~programmnogo~ ~obespeqeni7~: Python, Git")
NumberedName == T("1. Python 3.")
NotRequired == T("~Ne~ ~trebuets7~")
FacilitiesHeading == T("6. ~Material4no~-~tehniqeska7~ ~baza~")
NamesInText == T("~Ispol4zuets7~ MATLAB ~i~ MS Office")
SoftwareParagraphs == {SoftwareHeading, SoftwareListed, NumberedName, NotRequired, FacilitiesHeading, NamesInText}
SoftwareTable == <<<<T("~Naimenovanie~ ~PO~"), T("~Licenzi7~")>>, <<T("LibreOffice"), T("GPLv3")>>>>
PlanTable == <<<<T("~Razdel~"), T("~Qas3~")>>, <<T("~Vvedenie~"), T("4")>>>>
SoftwareTables == {<<>>, <<SoftwareTable>>, <<PlanTable, SoftwareTable>>}

\* the collectors of the software list run in this order; buf is all_sw
Collector(step) == fn = "parse_docx_structural" /\ pc = step
Collected(name, items, next) ==
    /\ buf' = buf \o items
    /\ calls' = Append(calls, [collector |-> name, items |-> items])
    /\ pc' = next
    /\ UNCHANGED <<dbvars, servervars, fn, arg, ret, state, result, pos, hashseed, data>>

\* sw_paras = extract_software_paragraphs(doc.paragraphs)
ParagraphCollector ==
    /\ Collector("sw_paras")
    /\ Collected("paragraphs", extract_software_paragraphs(arg.paragraphs), "sw_tables")

\* sw_tables = extract_software_tables(doc.tables)
TableCollector ==
    /\ Collector("sw_tables")
    /\ Collected("tables", extract_software_tables(arg.tables, 1, <<>>), "sw_fallback")

\* the loop that fills sw_fallback; all_sw = sw_paras + sw_tables + sw_fallback
LegacyCollector ==
    /\ Collector("sw_fallback")
    /\ Collected("fallback", sw_fallback(arg.paragraphs, 1, FALSE, <<>>), "patterns")

\* if not all_sw: the names of known_sw_pats found in full_text_blob
PatternCollector ==
    /\ Collector("patterns") /\ buf = <<>>
    /\ Collected("patterns", KnownSoftware(<<>>, full_text_blob(arg.paragraphs), 1), "dedup")

\* all_sw is not empty: known_sw_pats is not looked for
NoPatterns ==
    /\ Collector("patterns") /\ buf # <<>>
    /\ pc' = "dedup"
    /\ UNCHANGED <<dbvars, servervars, fn, arg, ret, segvars, hashseed, calls, data>>

\* the loop over all_sw that fills data.software
Deduplicate ==
    /\ Collector("dedup")
    /\ data' = [data EXCEPT !.software = DedupSoftware(buf, 1, <<>>)]
    /\ ret' = data'
    /\ pc' = "returned"
    /\ UNCHANGED <<dbvars, servervars, fn, arg, segvars, hashseed, calls>>

InitSoftware ==
    /\ fn = "parse_docx_structural"
    /\ \E doc \in Documents(SoftwareParagraphs), tables \in SoftwareTables :
          arg = [paragraphs |-> doc, tables |-> tables]
    /\ ret = None /\ pc = "sw_paras"
    /\ Segmentation /\ Unlinked /\ Closed /\ Unserved
NextSoftware ==
    \/ ParagraphCollector \/ TableCollector \/ LegacyCollector
    \/ PatternCollector \/ NoPatterns \/ Deduplicate
SpecSoftware == InitSoftware /\ [][NextSoftware]_vars

-----------------------------------------------------------------------------
(* The database calls of the server: analyze saves a record under a new    *)
(* identifier, get_file loads one, delete_file deletes one.  save_to_db    *)
(* runs insert by insert and any of them may raise.                         *)

BetweenCalls ==
    pc \in {"idle", "returned", "raised"} /\ Len(calls) < Len(EarlierCalls) + MaxStoreCalls

\* the file identifiers a client can know (list_files), and one that was
\* never issued
KnownFiles == {r.id : r \in db.files} \cup {0}

\* analyze: file_id = str(uuid.uuid4()); save_to_db(file_id, file.filename,
\* file_size, data)
CallSave ==
    /\ BetweenCalls
    /\ \E d \in StoreRecords :
          arg' = [file_id |-> uuid4(uuids), filename |-> T("rpd.docx"), file_size |-> 1, data |-> d]
    /\ fn' = "save_to_db" /\ ret' = None /\ pc' = InsertSteps[1]
    /\ uuids' = uuids + 1 /\ locals' = NoLocals
    /\ UNCHANGED <<db, journal, segvars, linkvars, servervars>>

\* the first insert opens the transaction
Begun == IF journal = <<>> THEN <<db>> ELSE journal

\* every insert of one table
Insert ==
    /\ fn = "save_to_db" /\ pc \in Range(InsertSteps)
    /\ db' = Inserted(db, pc, StepRows(pc, arg, locals, uuids, RowCount(pc, arg)))
    /\ locals' = StepLocals(pc, arg, locals, uuids, RowCount(pc, arg))
    /\ uuids' = uuids + StepIds(pc, RowCount(pc, arg))
    /\ journal' = Begun
    /\ pc' = AfterStep(pc)
    /\ UNCHANGED <<fn, arg, ret, segvars, linkvars, servervars>>

\* an insert raises after k inserts of its table were made
InsertRaises ==
    /\ fn = "save_to_db" /\ pc \in Range(InsertSteps)
    /\ \E k \in 0..(RowCount(pc, arg) - 1) :
          /\ db' = Inserted(db, pc, StepRows(pc, arg, locals, uuids, k))
          /\ uuids' = uuids + StepIds(pc, k + 1)
    /\ journal' = Begun
    /\ pc' = "except"
    /\ UNCHANGED <<fn, arg, ret, locals, segvars, linkvars, servervars>>

\* conn.commit()
Commit ==
    /\ fn = "save_to_db" /\ pc = "commit"
    /\ journal' = <<>> /\ pc' = "returned"
    /\ calls' = Append(calls, [fn |-> fn, file_id |-> arg.file_id, data |-> arg.data, outcome |-> "returned"])
    /\ UNCHANGED <<fn, arg, ret, db, uuids, locals, segvars, hashseed, data, servervars>>

CommitRaises ==
    /\ fn = "save_to_db" /\ pc = "commit"
    /\ pc' = "except"
    /\ UNCHANGED <<fn, arg, ret, dbvars, segvars, linkvars, servervars>>

\* except Exception as e: conn.rollback(); raise e
Except ==
    /\ fn = "save_to_db" /\ pc = "except"
    /\ db' = rollback(db, journal[1])
    /\ journal' = <<>> /\ pc' = "raised"
    /\ calls' = Append(calls, [fn |-> fn, file_id |-> arg.file_id, data |-> arg.data, outcome |-> "raised"])
    /\ UNCHANGED <<fn, arg, ret, uuids, locals, segvars, hashseed, data, servervars>>

\* get_file: load_from_db(file_id)
Load ==
    /\ BetweenCalls
    /\ \E f \in KnownFiles :
          /\ arg' = [file_id |-> f]
          /\ IF DisciplinesOf(db, f) = {} THEN ret' = None
             ELSE \E disc \in DisciplinesOf(db, f) : ret' \in LoadedFrom(db, disc)
          /\ calls' = Append(calls, [fn |-> "load_from_db", file_id |-> f])
    /\ fn' = "load_from_db" /\ pc' = "returned"
    /\ UNCHANGED <<dbvars, segvars, hashseed, data, servervars>>

\* delete_file: delete_file_from_db(file_id)
Delete ==
    /\ BetweenCalls
    /\ \E f \in KnownFiles :
          /\ arg' = [file_id |-> f]
          /\ db' = delete_file_from_db(db, f)
          /\ calls' = Append(calls, [fn |-> "delete_file_from_db", file_id |-> f])
    /\ fn' = "delete_file_from_db" /\ ret' = None /\ pc' = "returned"
    /\ UNCHANGED <<journal, uuids, locals, segvars, hashseed, data, servervars>>

InitStore ==
    /\ fn = "init_db" /\ arg = None /\ ret = None /\ pc = "idle"
    /\ Segmentation /\ Unserved /\ hashseed = 0 /\ data = DisciplineData
    /\ db = EarlierDb /\ journal = <<>> /\ uuids = EarlierIds /\ locals = NoLocals
    /\ calls = EarlierCalls
NextStore ==
    \/ CallSave \/ Insert \/ InsertRaises \/ Commit \/ CommitRaises \/ Except
    \/ Load \/ Delete
SpecStore == InitStore /\ [][NextStore]_vars

-----------------------------------------------------------------------------
(* The analyze endpoint serving requests on one event loop.  A request      *)
(* runs from one await to the next; its steps are logged in calls.          *)

NoRequest ==
    [pc |-> "new", upload |-> None, ext |-> <<>>, parser |-> "", data |-> 0, file_id |-> 0,
     response |-> None]

\* the coroutine of request r can take its next step
Runs(r) ==
    \/ running = r
    \/ running = 0 /\ (requests[r].pc = "new" \/ Suspends(requests[r].pc))

\* request r has taken the step and stands before the next one
Advance(r, step, request, next) ==
    /\ requests' = [requests EXCEPT ![r] = [request EXCEPT !.pc = next]]
    /\ running' = IF next = "done" \/ Suspends(next) THEN 0 ELSE r
    /\ calls' = Append(calls, [request |-> r, step |-> step])
    /\ UNCHANGED <<fn, arg, ret, pc, segvars, hashseed, data, journal, locals>>

Stands(r, step) == requests[r].pc = step /\ Runs(r)

Document(r) == requests[r].upload.document

\* a request arrives: ext = os.path.splitext(file.filename)[1].lower();
\* file_content = await file.read()
Receive(r) ==
    /\ Stands(r, "new") /\ (IF r = 1 THEN TRUE ELSE requests[r - 1].pc # "new")
    /\ \E u \in Uploads :
          Advance(r, "receive", [requests[r] EXCEPT !.upload = u, !.ext = Ext(u.filename)], "read")
    /\ UNCHANGED <<heap, db, uuids>>

\* the read is over: file_size, the temporary file
Resume(r) ==
    /\ Stands(r, "read")
    /\ Advance(r, "read", requests[r], "dispatch")
    /\ UNCHANGED <<heap, db, uuids>>

\* if ext == ".docx": ... elif ext == ".pdf": ...
Dispatch(r) ==
    /\ Stands(r, "dispatch") /\ Parser(requests[r].ext) # ""
    /\ Advance(r, "dispatch", [requests[r] EXCEPT !.parser = Parser(requests[r].ext)], "open")
    /\ UNCHANGED <<heap, db, uuids>>

\* else: raise HTTPException(400, "Only PDF/DOCX")
Reject(r) ==
    /\ Stands(r, "dispatch") /\ Parser(requests[r].ext) = ""
    /\ Advance(r, "reject", [requests[r] EXCEPT !.response = HTTPException(400)], "done")
    /\ UNCHANGED <<heap, db, uuids>>

\* the document is opened and data = DisciplineData()
Open(r) ==
    /\ Stands(r, "open") /\ ~requests[r].upload.corrupt
    /\ heap' = NewDisciplineData(heap)
    /\ Advance(r, "open", [requests[r] EXCEPT !.data = Len(heap')],
               StepAfter(requests[r].parser, "open"))
    /\ UNCHANGED <<db, uuids>>

\* parse_docx_structural: docx.Document(file_path) raises, and analyze
\* raises HTTPException(500, "Parse error: ...")
OpenRaises(r) ==
    /\ Stands(r, "open") /\ requests[r].upload.corrupt
    /\ requests[r].parser = "parse_docx_structural"
    /\ Advance(r, "raise", [requests[r] EXCEPT !.response = HTTPException(500)], "done")
    /\ UNCHANGED <<heap, db, uuids>>

\* parse_pdf_regex: data = DisciplineData(); the reader raises;
\* "except Exception: return data"
ReadFails(r) ==
    /\ Stands(r, "open") /\ requests[r].upload.corrupt
    /\ requests[r].parser = "parse_pdf_regex"
    /\ heap' = NewDisciplineData(heap)
    /\ Advance(r, "return", [requests[r] EXCEPT !.data = Len(heap')], "save")
    /\ UNCHANGED <<db, uuids>>

\* the name, the description, the goals and the competence codes
Fields(r) ==
    /\ Stands(r, "fields")
    /\ heap' = [heap EXCEPT ![requests[r].data] =
                   [@ EXCEPT !.name = Document(r).name, !.description = Document(r).description,
                             !.goals = Document(r).goals, !.outcomes = Document(r).outcomes]]
    /\ Advance(r, "fields", requests[r], StepAfter(requests[r].parser, "fields"))
    /\ UNCHANGED <<db, uuids>>

Software(r) ==
    /\ Stands(r, "software")
    /\ heap' = [heap EXCEPT ![requests[r].data].software =
                   SoftwareOf(requests[r].parser, Document(r).found)]
    /\ Advance(r, "software", requests[r], StepAfter(requests[r].parser, "software"))
    /\ UNCHANGED <<db, uuids>>

\* data.literature = LiteratureParser.extract_from_...(...): a new list
LiteratureOf(r) ==
    /\ Stands(r, "literature")
    /\ heap' = [New(heap, Document(r).literature) EXCEPT ![requests[r].data].literature = Ref(heap)]
    /\ Advance(r, "literature", requests[r], StepAfter(requests[r].parser, "literature"))
    /\ UNCHANGED <<db, uuids>>

Sections(r) ==
    /\ Stands(r, "sections")
    /\ heap' = AppendSections(heap, heap[requests[r].data].sections, Document(r).sections, 1)
    /\ Advance(r, "sections", requests[r], StepAfter(requests[r].parser, "sections"))
    /\ UNCHANGED <<db, uuids>>

\* data.category = classify_discipline(data.name, data.description, data.goals)
Classify(r) ==
    /\ Stands(r, "classify")
    /\ heap' = [heap EXCEPT ![requests[r].data].category =
                   classify_discipline(heap[requests[r].data].name,
                                       heap[requests[r].data].description,
                                       heap[requests[r].data].goals)]
    /\ Advance(r, "classify", requests[r], StepAfter(requests[r].parser, "classify"))
    /\ UNCHANGED <<db, uuids>>

\* data.sections = SoftwareMatcher.match(data.sections, data.software)
Link(r) ==
    /\ Stands(r, "match")
    /\ heap' = Matched(heap, requests[r].data)
    /\ Advance(r, "match", requests[r], StepAfter(requests[r].parser, "match"))
    /\ UNCHANGED <<db, uuids>>

\* return data
Parsed(r) ==
    /\ Stands(r, "return")
    /\ Advance(r, "return", requests[r], "save")
    /\ UNCHANGED <<heap, db, uuids>>

\* file_id = str(uuid.uuid4()); save_to_db(file_id, file.filename,
\* file_size, data)
SaveRecord(r) ==
    /\ Stands(r, "save")
    /\ db' = Saved(db, [file_id |-> uuid4(uuids), filename |-> requests[r].upload.filename,
                        file_size |-> 1, data |-> Deref(heap, requests[r].data)],
                   NoLocals, uuids + 1, 1)
    /\ uuids' = uuids + 1 + IdsIssued(Deref(heap, requests[r].data))
    /\ Advance(r, "save", [requests[r] EXCEPT !.file_id = uuid4(uuids)], "graph")
    /\ UNCHANGED heap

\* save_to_db raises: the server answers with an error
SaveRaises(r) ==
    /\ Stands(r, "save")
    /\ uuids' = uuids + 1
    /\ Advance(r, "save_raises", [requests[r] EXCEPT !.response = HTTPException(500)], "done")
    /\ UNCHANGED <<heap, db>>

\* nodes, edges = build_graph(data); return AnalysisResponse(...)
Respond(r) ==
    /\ Stands(r, "graph")
    /\ Advance(r, "respond",
               [requests[r] EXCEPT
                   !.response = AnalysisResponse(requests[r].file_id, Deref(heap, requests[r].data))],
               "done")
    /\ UNCHANGED <<heap, db, uuids>>

InitAnalyze ==
    /\ fn = "analyze" /\ arg = None /\ ret = None /\ pc = "serving"
    /\ Segmentation /\ Unlinked /\ Closed
    /\ requests = [r \in 1..MaxRequests |-> NoRequest] /\ running = 0 /\ heap = <<>>
NextAnalyze ==
    \E r \in 1..MaxRequests :
        \/ Receive(r) \/ Resume(r) \/ Dispatch(r) \/ Reject(r)
        \/ Open(r) \/ OpenRaises(r) \/ ReadFails(r)
        \/ Fields(r) \/ Software(r) \/ LiteratureOf(r) \/ Sections(r) \/ Classify(r) \/ Link(r)
        \/ Parsed(r) \/ SaveRecord(r) \/ SaveRaises(r) \/ Respond(r)
SpecAnalyze == InitAnalyze /\ [][NextAnalyze]_vars

-----------------------------------------------------------------------------
(* C7: the output of clean has no newline, tab or no-break space, no run of *)
(* two or more spaces, no leading or trailing space, and is empty for empty *)
(* input.                                                                   *)
C7_CleanNormalized ==
    Returned("clean") =>
        /\ \A i \in 1..Len(ret) : ret[i] \notin {"\n", "\t", NBSP}
        /\ \A i \in 1..(Len(ret) - 1) : ~(ret[i] = " " /\ ret[i + 1] = " ")
        /\ (Len(ret) > 0 => ret[1] # " " /\ ret[Len(ret)] # " ")
        /\ (Len(arg) = 0 => Len(ret) = 0)

\* a call where all three kinds of noise were present and text survived
C7_Witness ==
    /\ Returned("clean")
    /\ arg = <<NBSP, "a", "\n", "\t">>
    /\ ret = <<"a">>

-----------------------------------------------------------------------------
(* C6: classify_discipline returns technical exactly when the technical     *)
(* score is >= both other scores, otherwise humanitarian exactly when the   *)
(* humanitarian score is >= the natural-science score, otherwise            *)
(* natural_science; so the result is one of the three values and every tie  *)
(* (all scores zero included) goes to technical, then to humanitarian.      *)
C6_Scores ==
    LET text == Lower(arg[1] \o <<" ">> \o arg[2] \o <<" ">> \o arg[3])
        hits(kws) == Cardinality({i \in 1..Len(kws) : Contains(text, kws[i])})
    IN [tech |-> hits(technical_keywords),
        hum |-> hits(humanitarian_keywords),
        nat |-> hits(natural_keywords)]

C6_ClassifyByScore ==
    Returned("classify_discipline") =>
        LET sc == C6_Scores IN
        /\ ret \in {"technical", "humanitarian", "natural_science"}
        /\ (ret = "technical") <=> (sc.tech >= sc.hum /\ sc.tech >= sc.nat)
        /\ (ret = "humanitarian") <=>
               (~(sc.tech >= sc.hum /\ sc.tech >= sc.nat) /\ sc.hum >= sc.nat)
        /\ (sc.tech = sc.hum /\ sc.hum = sc.nat => ret = "technical")
        /\ (sc.hum = sc.nat /\ sc.tech < sc.hum => ret = "humanitarian")

\* a three-way tie above zero that went to technical
C6_Witness ==
    /\ Returned("classify_discipline")
    /\ C6_Scores.tech = C6_Scores.hum /\ C6_Scores.hum = C6_Scores.nat
    /\ C6_Scores.tech > 0
    /\ ret = "technical"

\* a humanitarian / natural-science tie that went to humanitarian
C6_WitnessHumTie ==
    /\ Returned("classify_discipline")
    /\ C6_Scores.hum = C6_Scores.nat /\ C6_Scores.tech < C6_Scores.hum
    /\ ret = "humanitarian"

-----------------------------------------------------------------------------
(* C9: is_header_row is true exactly when at least 2 keywords of the header *)
(* keyword set occur in the row's joined lower-case text; the row           *)
(* (running-number caption, topic-name caption, lectures caption) is a      *)
(* header, and a row whose first cell is the total word followed by numbers *)
(* is a skip row.                                                           *)
C9_IsNumber(cell) == Len(cell) > 0 /\ \A i \in 1..Len(cell) : IsDigit(cell[i])

C9_RowClassifiers ==
    /\ Returned("is_header_row") =>
        /\ ret <=> Cardinality({i \in 1..Len(header_words) :
                       Contains(Lower(JoinSp(arg)), header_words[i])}) >= 2
        /\ (arg = HeaderExample => ret)
    /\ Returned("is_skip_row") =>
        ((/\ Len(arg) >= 2
          /\ arg[1] = T("~Itogo~")
          /\ \A i \in 2..Len(arg) : C9_IsNumber(arg[i])) => ret)

C9_Witness ==
    /\ Returned("is_header_row") /\ arg = HeaderExample /\ ret

C9_WitnessSkip ==
    /\ Returned("is_skip_row") /\ arg = SkipExample /\ ret

-----------------------------------------------------------------------------
(* C8 as claimed: for every title shorter than 300 characters the segmenter *)
(* applied to title + " " + "" returns (title, "").                         *)
C8_Original ==
    (Returned("split_section_name_content") /\ arg.content = <<>> /\ Len(arg.title) < 300)
        => ret = <<arg.title, <<>>>>

(* C8 as amended: for every title shorter than 300 characters that is       *)
(* already normalized (clean leaves it unchanged) and in which the first    *)
(* period + whitespace + capital letter after the numbering prefix, if      *)
(* there is one, starts at offset 8 or earlier, the segmenter applied to    *)
(* title + " " + "" returns (title, "").                                    *)
C8_NoLateBoundary(title) ==
    LET n == PrefixLen(title)
        body == IF n > 0 THEN Strip(SubSeq(title, n + 1, Len(title))) ELSE title
    IN FirstBoundary(body) <= 8

C8_TitleOnly ==
    (/\ Returned("split_section_name_content")
     /\ arg.content = <<>>
     /\ Len(arg.title) < 300
     /\ clean(arg.title) = arg.title
     /\ C8_NoLateBoundary(arg.title))
        => ret = <<arg.title, <<>>>>

\* a normalized title with a numbering prefix and an early boundary, kept whole
C8_Witness ==
    /\ Returned("split_section_name_content")
    /\ arg.content = <<>>
    /\ arg.title = T("~Tema~ 1. ~Gl~. ~Metod3~")
    /\ ret = <<arg.title, <<>>>>

-----------------------------------------------------------------------------
(* C4: given non-empty lines, _merge starts a new entry exactly at each     *)
(* line after the first that begins with a numbering marker (N. / [N] /     *)
(* N)), and appends every other line, space-joined, to the current entry:   *)
(* the k-th entry is the space-join of the lines from the k-th start up to  *)
(* the next start, so the entries keep the order of the lines, and a        *)
(* numbered line followed by a continuation line is one entry holding both. *)
C4_AllDigits(t, a, b) == \A i \in a..b : i <= Len(t) /\ IsDigit(t[i])

\* the line begins with N. or N) and whitespace, or with [N], N of 1 to 3 digits
C4_Marker(line) ==
    \/ \E k \in 1..3 :
          /\ C4_AllDigits(line, 1, k)
          /\ Len(line) >= k + 2
          /\ line[k + 1] \in {".", ")"}
          /\ IsSpace(line[k + 2])
    \/ \E k \in 1..3 :
          /\ Len(line) >= k + 2
          /\ line[1] = "["
          /\ C4_AllDigits(line, 2, k + 1)
          /\ line[k + 2] = "]"

C4_Starts(lines) == {1} \cup {i \in 2..Len(lines) : C4_Marker(lines[i])}

C4_MergeByMarker ==
    (Returned("_merge") /\ Len(arg) > 0) =>
        LET starts == C4_Starts(arg)
            start(k) == CHOOSE i \in starts : Cardinality({j \in starts : j < i}) = k - 1
            stop(k) == IF k = Cardinality(starts) THEN Len(arg) ELSE start(k + 1) - 1
        IN /\ Len(ret) = Cardinality(starts)
           /\ \A k \in 1..Len(ret) : ret[k] = JoinSp(SubSeq(arg, start(k), stop(k)))
           /\ (arg = MergeExample =>
                  /\ Len(ret) = 1
                  /\ Contains(ret[1], arg[1]) /\ Contains(ret[1], arg[2]))

\* the numbered line and its continuation became one entry
C4_Witness ==
    /\ Returned("_merge") /\ arg = MergeExample
    /\ ret = <<arg[1] \o <<" ">> \o arg[2]>>

\* a [N] marker after a continuation line started the second entry
C4_WitnessBracket ==
    /\ Returned("_merge")
    /\ Len(arg) = 3 /\ ~C4_Marker(arg[2]) /\ C4_Marker(arg[3]) /\ arg[3][1] = "["
    /\ ret = <<arg[1] \o <<" ">> \o arg[2], arg[3]>>

-----------------------------------------------------------------------------
(* C10 as claimed: for an entry of the shape                                *)
(*   <number>. <Surname I.I.> <Title>. – <City>: <Publisher>, <year>. – <N> с. *)
(* with the year in 1950-2039, _parse_entry yields that year, pages         *)
(* "<N> с.", entry_type "book", the leading number, and a non-empty title   *)
(* that does not contain the author token.                                  *)
C10_Fields ==
    /\ ret.year = arg.year
    /\ ret.pages = arg.pages \o PageSuffix
    /\ ret.entry_type = "book"
    /\ ret.number = arg.number
    /\ ret.title # <<>>
    /\ ~Contains(ret.title, arg.author)
    /\ \A i \in 1..Len(ret.authors) : ~Contains(ret.title, ret.authors[i])

C10_Original == (Returned("_parse_entry") /\ arg.shaped) => C10_Fields

(* C10 as amended: the same, for entries of that shape in which the number  *)
(* has 1 to 3 digits, the title has at least 5 characters and its last word *)
(* at least 2, title, city and publisher consist of letters, single spaces  *)
(* and (the city) a final period, and the text holds no e-library provider  *)
(* name and no standard marker, in any letter case.                         *)
C10_Words(t) ==
    /\ Len(t) > 0
    /\ \A i \in 1..Len(t) : t[i] \in Letters \/ (t[i] = " " /\ i > 1 /\ i < Len(t))
    /\ \A i \in 1..(Len(t) - 1) : ~(t[i] = " " /\ t[i + 1] = " ")

C10_Markers == <<T("~5bs~"), T("znanium"), T("~lan4~"), T("~6rayt~"), T("iprbooks"), T("~gost~"), T("~standart~"), T("~snip~")>>

C10_NoMarker(raw) ==
    LET tl == Lower(raw) IN
    /\ \A k \in 1..Len(C10_Markers) : ~Contains(tl, C10_Markers[k])
    /\ ~(Contains(tl, T("~5lektronn~")) /\ Contains(tl, T("~biblioteqn~")))

C10_Plain ==
    /\ Len(arg.number) \in 1..3
    /\ Len(arg.title) >= 5
    /\ arg.title[Len(arg.title) - 1] # " "
    /\ C10_Words(arg.title)
    /\ C10_Words(arg.publisher)
    /\ C10_Words(IF arg.city[Len(arg.city)] = "." THEN SubSeq(arg.city, 1, Len(arg.city) - 1)
                 ELSE arg.city)
    /\ C10_NoMarker(arg.raw)

C10_ShapedEntry == (Returned("_parse_entry") /\ arg.shaped /\ C10_Plain) => C10_Fields

\* the entry of the citation example, with its fields
C10_Witness ==
    /\ Returned("_parse_entry") /\ arg.shaped /\ C10_Plain
    /\ arg.raw = EntryExample
    /\ ret.year = T("2020") /\ ret.pages = T("300 ~s~.") /\ ret.entry_type = "book"
    /\ ret.number = T("2") /\ ret.title = T("~Fizika~")
    /\ ret.authors = <<T("~Petrov~ ~P~.~P~.")>>

\* an entry of the shape, latest year of the range, first year of the range
C10_WitnessRange ==
    /\ Returned("_parse_entry") /\ arg.shaped /\ C10_Plain
    /\ arg.year = T("2039") /\ ret.year = T("2039")

-----------------------------------------------------------------------------
(* C5: every LiteratureEntry of the main or the additional list, whichever  *)
(* path created it (the flush of the paragraph or text segmentation, a      *)
(* table row, the 4.1 / 4.2 paragraph fallback), has a non-empty raw field, *)
(* and the entry is the parse of that raw text.                             *)
C5_Entries == Range(result.main) \cup Range(result.additional)

C5_RawNeverEmpty == \A e \in C5_Entries : Len(e.raw) > 0 /\ e = _parse_entry(e.raw)

\* an entry flushed by the paragraph segmentation: two lines merged
C5_Witness ==
    /\ fn = "parse_docx_structural" /\ pc = "tables"
    /\ \E e \in Range(result.main) : e.raw = T("1. ~Ivanov~ ~I~.~I~. ~Kurs~ ~lekciy~. = ~M~., 2019. ~prodoljenie~ ~teksta~.")

\* an entry flushed by the text segmentation
C5_WitnessText == fn = "parse_pdf_regex" /\ pc = "returned" /\ Len(ret.additional) > 0

\* entries of table rows, the longest cell and the joined cells
C5_WitnessTables ==
    /\ pc = "legacy" /\ Len(arg.paragraphs) = 0
    /\ \E e \in Range(result.main) : e.raw = T("~Seti~ 2019 ~god~")
    /\ Len(result.main) = 2 /\ Len(result.additional) = 0

\* an entry of the 4.1 / 4.2 fallback
C5_WitnessLegacy ==
    /\ fn = "parse_docx_structural" /\ pc = "returned" /\ arg.tables = <<>>
    /\ Len(arg.paragraphs) = 2 /\ arg.paragraphs[1] = MainNumber /\ Len(ret.main) = 1

-----------------------------------------------------------------------------
(* C1: after match(sections, software) with at least one section and one    *)
(* software item, every software item is in linked_software of at least one *)
(* section; an item whose keyword score is below 2 in every section is      *)
(* linked to exactly one section, the one at index hash(name) mod the       *)
(* number of sections.                                                      *)
C1_LinkedTo(sections, sw) == {i \in 1..Len(sections) : sw \in Range(sections[i].linked_software)}

C1_Unscored(sections, sw) ==
    \A i \in 1..Len(sections) : score(sw, section_text(sections[i])) < MinScore

C1_EveryItemLinked ==
    (fn = "match" /\ calls = <<"input">> /\ Len(arg.sections) >= 1 /\ Len(arg.software) >= 1) =>
        \A k \in 1..Len(arg.software) :
            LET sw == arg.software[k] IN
            /\ C1_LinkedTo(ret, sw) # {}
            /\ C1_Unscored(arg.sections, sw) =>
                  C1_LinkedTo(ret, sw) = {(hash(sw) % Len(arg.sections)) + 1}

\* three sections, one item linked by its keywords to two of them and one
\* item linked by the fallback, to a section that is not the first
C1_Witness ==
    /\ fn = "match" /\ calls = <<"input">> /\ Len(arg.sections) = 3
    /\ \E k \in 1..Len(arg.software) :
          /\ C1_Unscored(arg.sections, arg.software[k])
          /\ C1_LinkedTo(ret, arg.software[k]) = {(hash(arg.software[k]) % 3) + 1}
          /\ hash(arg.software[k]) < 0
          /\ 1 \notin C1_LinkedTo(ret, arg.software[k])
    /\ \E k \in 1..Len(arg.software) : Cardinality(C1_LinkedTo(ret, arg.software[k])) = 2

-----------------------------------------------------------------------------
(* C2: within one process, a second run of match on an identical (sections, *)
(* software) input returns identical linked_software lists for every        *)
(* section, the fallback assignment included; and a run of match on its own *)
(* output leaves the set of linked software of every section unchanged.     *)
C2_LinkedSets(sections) == [i \in 1..Len(sections) |-> Range(sections[i].linked_software)]

-----------------------------------------------------------------------------
(* C3: in every record returned by the DOCX or PDF parser, linked_software  *)
(* of each section holds only names of the record's software list, and no   *)
(* name twice.                                                              *)
C3_NoDuplicates(linked) == \A a, b \in 1..Len(linked) : a # b => linked[a] # linked[b]

C3_LinkedSubset ==
    (pc = "returned" /\ fn \in {"parse_docx_structural", "parse_pdf_regex"} /\ calls # <<>>) =>
        \A i \in 1..Len(ret.sections) :
            /\ Range(ret.sections[i].linked_software) \subseteq Range(ret.software)
            /\ C3_NoDuplicates(ret.sections[i].linked_software)

\* a PDF record whose software list holds a name twice, linked by the
\* fallback, and a section with a name linked by its keywords
C3_Witness ==
    /\ pc = "returned" /\ fn = "parse_pdf_regex" /\ calls # <<>>
    /\ Len(ret.software) = 2 /\ ret.software[1] = ret.software[2]
    /\ C1_Unscored(ret.sections, ret.software[1])
    /\ \E i \in 1..Len(ret.sections) : ret.software[1] \in Range(ret.sections[i].linked_software)

\* a DOCX record with two names, both linked
C3_WitnessDocx ==
    /\ pc = "returned" /\ fn = "parse_docx_structural" /\ calls # <<>>
    /\ Len(ret.software) = 2
    /\ \A k \in 1..2 : C1_LinkedTo(ret.sections, ret.software[k]) # {}

-----------------------------------------------------------------------------
(* C11: in every record returned by the DOCX or the PDF parser the software *)
(* list holds no name twice (for DOCX: no two names equal ignoring case),   *)
(* keeps the order of first discovery, and every name has 2 to 150          *)
(* characters.                                                              *)
C11_Unique(software) == \A a, b \in 1..Len(software) : a # b => software[a] # software[b]

C11_UniqueIgnoringCase(software) ==
    \A a, b \in 1..Len(software) : a # b => Lower(software[a]) # Lower(software[b])

C11_Lengths(software) ==
    \A k \in 1..Len(software) :
        Len(software[k]) >= MinSoftwareLen /\ Len(software[k]) <= MaxSoftwareLen

\* the names as the parser discovers them, one for each line found
C11_Discovered ==
    [i \in 1..Len(arg.found) |->
        IF fn = "parse_docx_structural" THEN Strip(arg.found[i])
        ELSE clean(NoBullet(NoNumber(Strip(arg.found[i]))))]

C11_InOrder(software) ==
    /\ Range(software) \subseteq Range(C11_Discovered)
    /\ \A a, b \in 1..Len(software) :
          a < b => FirstIndex(C11_Discovered, software[a]) < FirstIndex(C11_Discovered, software[b])

C11_SoftwareList ==
    (pc = "returned" /\ fn \in {"parse_docx_structural", "parse_pdf_regex"}) =>
        /\ C11_Unique(ret.software)
        /\ fn = "parse_docx_structural" => C11_UniqueIgnoringCase(ret.software)
        /\ C11_InOrder(ret.software)
        /\ C11_Lengths(ret.software)

\* the part of C11 that is about the DOCX parser
C11_DocxSoftwareList == fn = "parse_docx_structural" => C11_SoftwareList

\* the PDF parser returns a list with the same name twice
C11_PdfDuplicate ==
    /\ pc = "returned" /\ fn = "parse_pdf_regex"
    /\ Len(ret.software) = 2 /\ ret.software[1] = ret.software[2]

\* the PDF parser returns a name of fewer than 2 characters
C11_PdfShort ==
    /\ pc = "returned" /\ fn = "parse_pdf_regex"
    /\ \E k \in 1..Len(ret.software) : Len(ret.software[k]) < MinSoftwareLen

-----------------------------------------------------------------------------
(* C12: a record saved with save_to_db and later read with load_from_db    *)
(* has its sections in the order of the saved record, each with its name,   *)
(* content and four hour fields unchanged, whatever other records were      *)
(* saved or deleted in between.                                             *)
C12_Saved(file_id) ==
    {i \in 1..Len(calls) :
        calls[i].fn = "save_to_db" /\ calls[i].file_id = file_id /\ calls[i].outcome = "returned"}

C12_Fields(sections) ==
    [i \in 1..Len(sections) |-> <<sections[i].name, sections[i].content, sections[i].hours>>]

C12_SectionsInOrder ==
    (fn = "load_from_db" /\ pc = "returned" /\ ret # None) =>
        /\ C12_Saved(arg.file_id) # {}
        /\ \A i \in C12_Saved(arg.file_id) :
              C12_Fields(ret.sections) = C12_Fields(calls[i].data.sections)

\* a record whose sections are not in the order of their names is loaded
\* after another record was saved and deleted
C12_Witness ==
    /\ fn = "load_from_db" /\ pc = "returned" /\ ret # None
    /\ C12_Fields(ret.sections) = C12_Fields(PhysicsRecord.sections)
    /\ \E i, j \in 1..Len(calls) :
          /\ i < j /\ calls[i].fn = "save_to_db" /\ calls[j].fn = "delete_file_from_db"
          /\ calls[i].file_id = arg.file_id /\ calls[j].file_id = EarlierCall.file_id
    /\ db.sections # {} /\ RecordRows(db, EarlierCall.file_id).files = {}

\* a record with two equal sections around a third is loaded
C12_WitnessRepeated ==
    /\ fn = "load_from_db" /\ pc = "returned" /\ ret # None
    /\ C12_Fields(ret.sections) = C12_Fields(RepeatedRecord.sections)

-----------------------------------------------------------------------------
(* C15: the write of a record is all or nothing: when an insert inside      *)
(* save_to_db fails, the database afterwards holds none of the record's     *)
(* rows and the failure is raised; when save_to_db returns, it holds them   *)
(* all.                                                                     *)
C15_Rows == RecordRows(db, arg.file_id)

C15_LinkCount(d) ==
    Cardinality({<<i, sw>> \in (1..Len(d.sections)) \X Range(d.software) :
                    sw \in Range(d.sections[i].linked_software)})

C15_AllOrNothing ==
    /\ (fn = "save_to_db" /\ pc = "raised") =>
          /\ \A t \in DOMAIN db : C15_Rows[t] = {}
          /\ journal = <<>>
    /\ (fn = "save_to_db" /\ pc = "returned") =>
          /\ Cardinality(C15_Rows.files) = 1
          /\ Cardinality(C15_Rows.disciplines) = 1
          /\ Cardinality(C15_Rows.sections) = Len(arg.data.sections)
          /\ Cardinality(C15_Rows.software) = Len(arg.data.software)
          /\ Cardinality(C15_Rows.section_software) = C15_LinkCount(arg.data)
          /\ Cardinality(C15_Rows.literature) =
                Len(arg.data.literature.main) + Len(arg.data.literature.additional)
          /\ Cardinality(C15_Rows.outcomes) = Len(arg.data.outcomes)
          /\ journal = <<>>
    \* a failure never ends in a return, nor a commit in a raise
    /\ (fn = "save_to_db" /\ pc = "except") => journal # <<>>

\* save_to_db raised after some sections of the record had been inserted,
\* while the rows of an earlier record stay
C15_Witness ==
    /\ fn = "save_to_db" /\ pc = "raised"
    /\ Len(locals.section_ids) > 0 /\ locals.sw_name_to_id = <<>>
    /\ db.sections # {}

C15_WitnessSaved ==
    /\ fn = "save_to_db" /\ pc = "returned"
    /\ Cardinality(C15_Rows.section_software) = 3

-----------------------------------------------------------------------------
(* C13: an analyze request whose file extension is neither .docx nor .pdf   *)
(* is rejected with an error: no parser is called, no record is written to  *)
(* the database, and no record or graph is returned.                        *)
C13_Supported == {T(".docx"), T(".pdf")}

C13_StepsOf(r) == {calls[i].step : i \in {i \in 1..Len(calls) : calls[i].request = r}}

C13_Dispatched(r) == requests[r].pc \notin {"new", "read", "dispatch"}

C13_UnsupportedRejected ==
    /\ \A r \in 1..MaxRequests :
          (C13_Dispatched(r) /\ requests[r].ext \notin C13_Supported) =>
              /\ requests[r].pc = "done"
              /\ requests[r].response.status = 400
              /\ DOMAIN requests[r].response = {"status"}
              /\ requests[r].data = 0 /\ requests[r].file_id = 0
              /\ C13_StepsOf(r) = {"receive", "read", "reject"}
    /\ Cardinality(db.files) = Cardinality({r \in 1..MaxRequests : "save" \in C13_StepsOf(r)})

\* a file without extension, named ".pdf" in the directory "docx", was
\* rejected after the record of another request was saved
C13_Witness ==
    \E r, q \in 1..MaxRequests :
        /\ requests[r].pc = "done" /\ requests[r].upload.filename = T("docx/.pdf")
        /\ requests[r].ext = <<>> /\ requests[r].response.status = 400
        /\ requests[q].pc = "done" /\ requests[q].response.status = 200
        /\ Cardinality(db.files) = 1

-----------------------------------------------------------------------------
(* C14: when the document cannot be opened or decoded, the parser (DOCX or  *)
(* PDF) returns a default DisciplineData instead of raising, so that        *)
(* analyze returns a result and not an error response.                      *)
C14_Corrupt(r) ==
    /\ requests[r].pc = "done" /\ requests[r].upload.corrupt
    /\ requests[r].ext \in C13_Supported
    /\ "save_raises" \notin C13_StepsOf(r)

C14_DefaultRecord(r) ==
    /\ requests[r].response.status = 200
    /\ requests[r].response.metadata = DisciplineData

C14_CorruptGivesDefault == \A r \in 1..MaxRequests : C14_Corrupt(r) => C14_DefaultRecord(r)

\* the part of C14 that is about the PDF parser
C14_CorruptPdfGivesDefault ==
    \A r \in 1..MaxRequests :
        (C14_Corrupt(r) /\ requests[r].ext = T(".pdf")) => C14_DefaultRecord(r)

\* a corrupt DOCX file ends in an error response
C14_DocxRaises ==
    \E r \in 1..MaxRequests :
        /\ C14_Corrupt(r) /\ requests[r].ext = T(".docx")
        /\ requests[r].response = HTTPException(500)

\* a corrupt PDF file ends in a response with the default record
C14_PdfDefault ==
    \E r \in 1..MaxRequests :
        C14_Corrupt(r) /\ requests[r].ext = T(".pdf") /\ C14_DefaultRecord(r)

-----------------------------------------------------------------------------
(* C16: concurrent analyze requests do not influence each other: whatever   *)
(* the interleaving, the record and the graph a request returns are those   *)
(* it returns when it runs alone, its record, section list, literature list *)
(* and hours objects are shared with no other request, and no step of       *)
(* another request runs between the start of its parse and its return.      *)
C16_Created(rows) ==
    [i \in 1..Len(rows) |->
        [SectionDetail(rows[i].name, rows[i].content) EXCEPT !.hours = rows[i].hours]]

C16_AloneWith(doc, software) ==
    [DisciplineData EXCEPT
        !.name = doc.name, !.description = doc.description, !.goals = doc.goals,
        !.outcomes = doc.outcomes, !.software = software, !.literature = doc.literature,
        !.category = classify_discipline(doc.name, doc.description, doc.goals),
        !.sections = match(C16_Created(doc.sections), software)]

\* the record of an upload parsed with no other request in the process
C16_Alone(u) ==
    IF u.corrupt THEN DisciplineData
    ELSE C16_AloneWith(u.document, SoftwareOf(Parser(Ext(u.filename)), u.document.found))

C16_Allocated == {r \in 1..MaxRequests : requests[r].data # 0}

C16_Independent ==
    /\ \A r \in 1..MaxRequests :
          (requests[r].pc = "done" /\ requests[r].response.status = 200) =>
              /\ requests[r].response.metadata = C16_Alone(requests[r].upload)
              /\ requests[r].response.graph = build_graph(requests[r].response.metadata, <<>>)
    /\ \A r, q \in C16_Allocated :
          r # q => Objects(heap, requests[r].data) \cap Objects(heap, requests[q].data) = {}
    /\ \A i \in 1..Len(calls) :
          calls[i].step = "open" =>
              \A j \in i..Len(calls) :
                  calls[j].request # calls[i].request =>
                      \A k \in j..Len(calls) : calls[k].request # calls[i].request

\* two requests were received before either was parsed, the second was
\* parsed first, and both returned a record with sections
C16_Witness ==
    /\ Len(calls) > 2
    /\ calls[1].request = 1 /\ calls[2].request = 2 /\ calls[3].request = 2
    /\ \A r \in 1..2 :
          /\ requests[r].pc = "done" /\ requests[r].response.status = 200
          /\ Len(requests[r].response.metadata.sections) > 0
    /\ requests[1].upload # requests[2].upload

-----------------------------------------------------------------------------
(* C17: in one parse the matcher runs once, after every section of the      *)
(* record was created and after the software list is final; sections are    *)
(* created without linked software; after the matcher has run, no later     *)
(* step changes the linked software of a section or the list of sections.   *)
C17_Index(r, step) == {i \in 1..Len(calls) : calls[i].request = r /\ calls[i].step = step}

C17_Before(r, step, i) == \E j \in C17_Index(r, step) : j < i

C17_Record(r) == Deref(heap, requests[r].data)

C17_Unlinked(sections) == \A i \in 1..Len(sections) : sections[i].linked_software = <<>>

C17_After(r) ==
    /\ Cardinality(C17_Index(r, "match")) <= 1
    /\ \A i \in C17_Index(r, "match") :
          /\ C17_Before(r, "sections", i) /\ C17_Before(r, "software", i)
          /\ \A j \in C17_Index(r, "sections") \cup C17_Index(r, "software") : j < i
    /\ (requests[r].data # 0 /\ C17_Index(r, "match") = {}) => C17_Unlinked(C17_Record(r).sections)

C17_MatcherOnce ==
    [][\A r \in 1..MaxRequests :
          /\ C17_After(r)'
          /\ C17_Index(r, "match") # {} =>
                /\ C17_Record(r).sections = C17_Record(r)'.sections
                /\ C17_Record(r).software = C17_Record(r)'.software]_vars

\* a request has answered with a record whose sections were linked by the
\* matcher, after its record was saved and its graph built
C17_Witness ==
    \E r \in 1..MaxRequests :
        /\ requests[r].pc = "done" /\ requests[r].response.status = 200
        /\ C17_Index(r, "match") # {} /\ C17_Index(r, "save") # {}
        /\ \E i \in 1..Len(C17_Record(r).sections) :
              Len(C17_Record(r).sections[i].linked_software) = 2

-----------------------------------------------------------------------------
(* C18: in the extraction of a section table every row is tested by the     *)
(* three classifiers, noise line, skip row and header row, noise and skip   *)
(* before header, and a row becomes a section only if none of the three     *)
(* classifies it as noise, skip or header.                                  *)
C18_Tests(row) == {i \in 1..Len(calls) : calls[i].row = row}

C18_Tested(row, test) == \E i \in C18_Tests(row) : calls[i].test = test

C18_Kept == {calls[i].row : i \in {i \in 1..Len(calls) : calls[i].test = "section"}}

C18_RowText(row) == JoinSp(cells_text(arg[row]))

C18_SkipBeforeHeader(row) ==
    \A i, j \in C18_Tests(row) :
        (calls[i].test = "is_skip_row" /\ calls[j].test = "is_header_row") => i < j

C18_GatedByThree ==
    fn = "parse_docx_structural" =>
        \A row \in C18_Kept :
            /\ C18_Tested(row, "is_noise_text") /\ ~is_noise_text(C18_RowText(row))
            /\ C18_Tested(row, "is_skip_row") /\ ~is_skip_row(cells_text(arg[row]))
            /\ C18_Tested(row, "is_header_row") /\ ~is_header_row(cells_text(arg[row]))
            /\ C18_SkipBeforeHeader(row)

\* what the code does: every row that has cells is tested by is_skip_row,
\* then by is_header_row unless it is a skip row, and a row that becomes a
\* section is neither; is_noise_text is not called
C18_GatedBySkipAndHeader ==
    fn = "parse_docx_structural" =>
        /\ \A row \in C18_Kept :
              /\ C18_Tested(row, "is_skip_row") /\ ~is_skip_row(cells_text(arg[row]))
              /\ C18_Tested(row, "is_header_row") /\ ~is_header_row(cells_text(arg[row]))
              /\ Len(cells_text(arg[row])[1]) >= MinFirstCell
        /\ \A row \in 1..Len(arg) :
              /\ C18_SkipBeforeHeader(row)
              /\ (IsSectionTable(arg) /\ Len(arg[row]) > 0 /\ (pos > row \/ pc = "returned"))
                    => C18_Tested(row, "is_skip_row")
              /\ ~C18_Tested(row, "is_noise_text")

\* a row whose first cell, and whose whole text, is administrative noise
\* has become a section of the returned list
C18_NoiseRowKept ==
    /\ fn = "parse_docx_structural" /\ pc = "returned"
    /\ \E row \in C18_Kept :
          /\ is_noise_text(cells_text(arg[row])[1]) /\ is_noise_text(C18_RowText(row))
          /\ \E k \in 1..Len(result) : result[k].name = cells_text(arg[row])[1]

-----------------------------------------------------------------------------
(* C19: the literature segmentation is in one of the states idle, main,     *)
(* additional, done; on every step that leaves main or additional, to the   *)
(* other list state, to done or at the end of the input, the lines          *)
(* accumulated are flushed into the list of the state in which they were    *)
(* accumulated and the other list is left as it is; no other step changes   *)
(* a list, and no header or stop line is ever among the accumulated lines,  *)
(* so that none is part of an entry.                                        *)
C19_States == {"idle", "main", "additional", "done"}

C19_Lists == {"main", "additional"}

C19_Other(st) == IF st = "main" THEN "additional" ELSE "main"

C19_List(res, st) == IF st = "main" THEN res.main ELSE res.additional

C19_Header(t) == _is_main(t) \/ _is_add(t) \/ _is_stop(t)

C19_Leaves == state \in C19_Lists /\ (state' # state \/ pc' # "lines")

C19_Step ==
    pc = "lines" =>
        /\ state' \in C19_States
        /\ IF C19_Leaves
           THEN /\ C19_List(result', state) = _flush(buf, C19_List(result, state))
                /\ C19_List(result', C19_Other(state)) = C19_List(result, C19_Other(state))
                /\ pc' = "lines" => buf' = <<>>
           ELSE result' = result
        /\ \A i \in 1..Len(buf') : ~C19_Header(buf'[i])

C19_FlushOnTransition == [][C19_Step]_vars

\* the header of the additional list came after a line of the main list:
\* the line is an entry of the main list, the additional list is empty
C19_Witness ==
    /\ fn = "parse_docx_structural" /\ pc = "lines" /\ pos = 4
    /\ state = "additional" /\ buf = <<>>
    /\ Len(result.main) = 1 /\ result.additional = <<>>
    /\ _is_main(clean(arg.paragraphs[1])) /\ _is_add(clean(arg.paragraphs[3]))

\* the text ended in state additional: its line was flushed into the
\* additional list
C19_WitnessEnd ==
    /\ fn = "parse_pdf_regex" /\ pc = "returned" /\ state = "additional"
    /\ Len(buf) = 1 /\ Len(ret.additional) = 1 /\ ret.main = <<>>

\* a stop header ended the main list
C19_WitnessDone ==
    /\ pc = "lines" /\ state = "done" /\ Len(result.main) = 1 /\ result.additional = <<>>

\* C20 as stated: the goals extractor runs methods 1, 2 and 4, and no other
\* extraction step comes between them.
C20_GoalsOneTwoFour ==
    fn = "extract_goals_docx" =>
        \A i \in 1..Len(calls) : calls[i].method \in {"method1", "method2", "method4"}

C20_Order ==
    IF fn = "extract_description_docx" THEN <<"method1", "method2", "method3">>
    ELSE <<"method1", "method2", "sentences", "method4">>
C20_Threshold == IF fn = "extract_description_docx" THEN MinDescLen ELSE MinGoalsLen
C20_Last == calls[Len(calls)]

\* C20, amended: the description extractor runs its methods in the order 1, 2,
\* 3 and the goals extractor in the order 1, 2, sentence search, 4; a method
\* runs only after every method before it has failed, where methods 1 and 2
\* succeed exactly with a value longer than the threshold (20 characters for
\* the description, 15 for the goals) and the sentence search succeeds exactly
\* when the full text has a goal sentence; the value returned is the value of
\* the first method that succeeds, and the empty string when the last method
\* has failed too.
C20_TiersInOrder ==
    /\ Len(calls) <= Len(C20_Order)
    /\ \A i \in 1..Len(calls) :
        /\ calls[i].method = C20_Order[i]
        /\ i < Len(calls) => ~calls[i].ok
        /\ calls[i].method \in {"method1", "method2"} =>
              (calls[i].ok <=> Len(calls[i].value) > C20_Threshold)
        /\ calls[i].method = "sentences" =>
              (calls[i].ok <=> goal_sentences(full_text_blob(arg.paragraphs), 1) # <<>>)
    /\ pc = "method1" => calls = <<>>
    /\ IF pc = "returned"
       THEN /\ calls # <<>>
            /\ C20_Last.ok \/ Len(calls) = Len(C20_Order)
            /\ ret = IF C20_Last.ok THEN C20_Last.value ELSE <<>>
       ELSE ret = None /\ \A i \in 1..Len(calls) : ~calls[i].ok

\* the goals extractor returns the goal sentence of a document whose items
\* method 4 would have returned
C20_Witness ==
    /\ fn = "extract_goals_docx" /\ pc = "returned"
    /\ Len(calls) = 3 /\ calls[3].method = "sentences" /\ calls[3].ok
    /\ ret = GoalSentence
    /\ Bulleted(arg.paragraphs) = From(GoalItem, 3)

\* the description extractor returns the paragraph method 3 has found after
\* methods 1 and 2 have failed
C20_WitnessDescription ==
    /\ fn = "extract_description_docx" /\ pc = "returned"
    /\ Len(calls) = 3 /\ ~calls[1].ok /\ ~calls[2].ok /\ calls[3].ok
    /\ ret = Overview

\* method 2 returns a value after the paragraphs have given one that is too short
C20_WitnessPatterns ==
    /\ pc = "returned" /\ Len(calls) = 2 /\ calls[2].ok
    /\ calls[1].value # <<>> /\ Len(calls[1].value) <= C20_Threshold

\* every method has failed
C20_WitnessEmpty ==
    /\ fn = "extract_goals_docx" /\ pc = "returned"
    /\ Len(calls) = 4 /\ ~calls[4].ok /\ ret = <<>>

\* the paragraphs of the document, cleaned
C21_Line(j) == clean(arg.paragraphs[j])
C21_Noise(j) == Len(C21_Line(j)) = 0 \/ is_noise_text(C21_Line(j))
\* the line with the start marker, 0 when the document has none
C21_Starts ==
    {j \in 1..Len(arg.paragraphs) : ~C21_Noise(j) /\ AnyFound(StartPatterns, C21_Line(j))}
C21_Start == IF C21_Starts = {} THEN 0 ELSE MinOf(C21_Starts)
\* the first line after it that matches a section-boundary pattern
C21_Boundaries ==
    {j \in (C21_Start + 1)..Len(arg.paragraphs) : AnyFound(StopPatterns, C21_Line(j))}
C21_Boundary ==
    IF C21_Boundaries = {} THEN Len(arg.paragraphs) + 1 ELSE MinOf(C21_Boundaries)
\* the lines of the buffer are the rest of the start line and lines that
\* follow it, come before the boundary, and are not noise
C21_Collected ==
    \A k \in 1..Len(buf) :
        \/ k = 1 /\ C21_Start > 0 /\ buf[1] = Remainder(C21_Line(C21_Start))
        \/ \E j \in (C21_Start + 1)..(C21_Boundary - 1) : ~C21_Noise(j) /\ buf[k] = C21_Line(j)

\* C21 as stated: the state goes from idle to collecting and never back (it
\* is collecting from the line with the start marker on); in idle nothing is
\* buffered, and the start line gives its rest only; collection ends at the
\* first line that matches a section-boundary pattern, and no paragraph after
\* it, and no noise line, is appended.
C21_CollectsToBoundary ==
    /\ state \in {"idle", "collecting"}
    /\ state = "collecting" <=> C21_Start > 0 /\ pos > C21_Start
    /\ state = "idle" => buf = <<>>
    /\ pc = "method1" /\ state = "collecting" => pos <= C21_Boundary
    /\ C21_Collected

\* the description returned holds a paragraph that follows the heading "1.4"
C21_AppendedAfterBoundary ==
    /\ fn = "extract_description_docx" /\ pc = "returned"
    /\ arg.paragraphs = <<Heading, NumberOnly, Overview>>
    /\ AnyFound(StopPatterns, C21_Line(2)) /\ is_noise_text(C21_Line(2))
    /\ calls[1].ok /\ ret = Overview

\* the text of the entry: the raw text without its number, stripped
C22_Text ==
    Strip(IF NUMBERING_RE(arg.raw).found THEN From(arg.raw, NUMBERING_RE(arg.raw).end + 1)
          ELSE arg.raw)
C22_Web == ret.url # <<>> /\ ~AnyIn(BookWords, Lower(C22_Text))
C22_Slashes == Contains(C22_Text, <<"/", "/">>)
C22_Types == {"ebs", "web", "article", "standard", "book"}

\* C22: the entry parsed has one of the five types, by strict priority: ebs
\* when the text names an e-library provider; else web when a URL was found
\* and the text has no book word; else article when the text has a double
\* slash; else standard when it has a standard marker; else book.
C22_TypeByPriority ==
    fn = "_parse_entry" /\ pc = "returned" =>
        /\ ret.entry_type \in C22_Types
        /\ ret.entry_type = "ebs" <=> IsEbs(C22_Text)
        /\ ret.entry_type = "web" <=> ~IsEbs(C22_Text) /\ C22_Web
        /\ ret.entry_type = "article" <=> ~IsEbs(C22_Text) /\ ~C22_Web /\ C22_Slashes
        /\ ret.entry_type = "standard" <=>
              ~IsEbs(C22_Text) /\ ~C22_Web /\ ~C22_Slashes /\ IsStandard(C22_Text)
        /\ ret.entry_type = "book" <=>
              ~IsEbs(C22_Text) /\ ~C22_Web /\ ~C22_Slashes /\ ~IsStandard(C22_Text)

\* an entry with a URL and a book word is an article, by the slashes of the URL
C22_Witness ==
    /\ fn = "_parse_entry" /\ pc = "returned"
    /\ ret.url # <<>> /\ AnyIn(BookWords, Lower(C22_Text)) /\ IsStandard(C22_Text) = FALSE
    /\ ret.entry_type = "article"
C22_WitnessEbs ==
    /\ fn = "_parse_entry" /\ pc = "returned"
    /\ ret.url # <<>> /\ C22_Slashes /\ AnyIn(BookWords, Lower(C22_Text))
    /\ ret.entry_type = "ebs"
C22_WitnessWeb ==
    /\ fn = "_parse_entry" /\ pc = "returned"
    /\ C22_Web /\ IsStandard(C22_Text) /\ ret.entry_type = "web"
C22_WitnessArticle ==
    /\ fn = "_parse_entry" /\ pc = "returned"
    /\ ret.url = <<>> /\ IsStandard(C22_Text) /\ ret.entry_type = "article"
C22_WitnessStandard ==
    fn = "_parse_entry" /\ pc = "returned" /\ ret.entry_type = "standard"
C22_WitnessBook ==
    fn = "_parse_entry" /\ pc = "returned" /\ ret.entry_type = "book"

-----------------------------------------------------------------------------
(* C23: the collectors of the software list of a DOCX document              *)

C23_Returned == fn = "parse_docx_structural" /\ pc = "returned"
\* the list that the paragraph, table and pattern collectors alone would give
C23_Claimed(sw_paras, sw_tables, text) ==
    DedupSoftware(sw_paras \o sw_tables
                    \o (IF sw_paras = <<>> /\ sw_tables = <<>>
                        THEN KnownSoftware(<<>>, text, 1) ELSE <<>>), 1, <<>>)

\* C23: the software list of a DOCX record is the deduplicated concatenation
\* of the paragraph collector, the table collector and the pattern collector,
\* in that order with no other source, and the pattern collector contributes
\* only if the paragraph and the table collector both yield nothing
C23_ThreeCollectors ==
    C23_Returned =>
        data.software = C23_Claimed(extract_software_paragraphs(arg.paragraphs),
                                    extract_software_tables(arg.tables, 1, <<>>),
                                    full_text_blob(arg.paragraphs))

\* the line "Не требуется", which the paragraph collector skips, is the
\* software list: the loop that fills sw_fallback has collected it
C23_FillerListed ==
    /\ C23_Returned
    /\ arg.paragraphs = <<SoftwareHeading, NotRequired>> /\ arg.tables = <<>>
    /\ calls[1].collector = "paragraphs" /\ calls[1].items = <<>>
    /\ calls[2].collector = "tables" /\ calls[2].items = <<>>
    /\ calls[3].collector = "fallback" /\ calls[3].items = <<NotRequired>>
    /\ Len(calls) = 3
    /\ data.software = <<NotRequired>>

-----------------------------------------------------------------------------
(* C24: the hours of a section row                                          *)

\* the rows that became sections, in the order of the sections
C24_Rows == SelectSeq(calls, LAMBDA c : c.test = "section")
\* the detected hour columns (from 0) that the row has, and the n-th of them
\* in ascending order
C24_Columns(cells) == {c \in HourColumns(arg) : c < Len(cells)}
C24_Column(cells, n) ==
    CHOOSE c \in C24_Columns(cells) : Cardinality({d \in C24_Columns(cells) : d < c}) = n - 1
C24_Digits(t) == t # <<>> /\ \A i \in 1..Len(t) : t[i] \in DigitChars
\* the n-th value: the text of the cell if it is a number, "0" otherwise
C24_Cell(cells, n) == Strip(clean(cells[C24_Column(cells, n) + 1]))
C24_Value(cells, n) == IF C24_Digits(C24_Cell(cells, n)) THEN C24_Cell(cells, n) ELSE T("0")
C24_Positional(h, cells, n) ==
    /\ n >= 1 => h.lectures = C24_Value(cells, 1)
    /\ n >= 2 => h.practice = C24_Value(cells, 2)
    /\ n = 3 => h.self_study = C24_Value(cells, 3) /\ h.labs = T("0")
    /\ n >= 4 => h.labs = C24_Value(cells, 3) /\ h.self_study = C24_Value(cells, 4)
    /\ n < 1 => h.lectures = T("0")
    /\ n < 2 => h.practice = T("0")
    /\ n < 3 => h.labs = T("0") /\ h.self_study = T("0")
    /\ \A f \in {"lectures", "practice", "labs", "self_study"} : C24_Digits(h[f])

\* C24: the hours of every section are the values of the detected hour
\* columns of its row in ascending column order, the 1st lectures, the 2nd
\* practice, the 3rd self_study if there are exactly 3 and labs "0", the 3rd
\* labs and the 4th self_study if there are 4 or more; a cell that is not a
\* number counts as "0"; all four fields are non-empty digit strings
C24_HoursByPosition ==
    fn = "parse_docx_structural" /\ pc \in {"skip", "header", "first", "name", "hours", "returned"} =>
        /\ Len(C24_Rows) = Len(result)
        /\ \A k \in 1..Len(result) :
              C24_Positional(result[k].hours, arg[C24_Rows[k].row],
                             Cardinality(C24_Columns(arg[C24_Rows[k].row])))

\* a section of a row with exactly three values: the third is self_study
C24_Witness ==
    /\ fn = "parse_docx_structural" /\ pc = "returned" /\ Len(result) > 0
    /\ Cardinality(C24_Columns(arg[C24_Rows[1].row])) = 3
    /\ result[1].hours.self_study # T("0") /\ result[1].hours.labs = T("0")
\* a section of a row with four values: the third is labs, the fourth self_study
C24_WitnessFour ==
    /\ fn = "parse_docx_structural" /\ pc = "returned" /\ arg = <<CaptionRow, FiveRow>>
    /\ Len(result) = 1
    /\ result[1].hours = [lectures |-> T("2"), practice |-> T("4"), labs |-> T("6"),
                          self_study |-> T("8")]
\* five values, the first not a number: the fifth is read into no field
C24_WitnessFive ==
    /\ fn = "parse_docx_structural" /\ pc = "returned" /\ arg = <<CaptionRow, FiveRow, NumberRow>>
    /\ Len(result) = 1
    /\ result[1].hours = [lectures |-> T("0"), practice |-> T("2"), labs |-> T("4"),
                          self_study |-> T("6")]
\* a number of four digits in an hour column, and a cell that is no number
C24_WitnessLong ==
    /\ fn = "parse_docx_structural" /\ pc = "returned" /\ arg = <<LongRow, SingleRow>>
    /\ Len(result) = 2
    /\ result[1].hours = [lectures |-> T("1200"), practice |-> T("0"), labs |-> T("0"),
                          self_study |-> T("0")]
\* a row shorter than the table: three of the four hour columns have a value
C24_WitnessShortRow ==
    /\ fn = "parse_docx_structural" /\ pc = "returned" /\ Len(result) > 0
    /\ Cardinality(HourColumns(arg)) > 3
    /\ Cardinality(C24_Columns(arg[C24_Rows[1].row])) = 3
    /\ result[1].hours.self_study # T("0")

-----------------------------------------------------------------------------
(* C25: the software nodes of the single-document graph                     *)

C25_Graph == pc = "graph"
C25_Nodes(id) == {n \in 1..Len(result.nodes) : result.nodes[n].id = id}
C25_Edge(source, target) ==
    {e \in 1..Len(result.edges) : result.edges[e].source = source /\ result.edges[e].target = target}
\* the sections (from 0) whose linked_software holds the name
C25_Linking(sw) ==
    {i \in 0..(Len(data.sections) - 1) : sw \in Range(data.sections[i + 1].linked_software)}
\* the k-th software item has one node, of type software and with its name;
\* every section that links the name has an edge "использует" to the node, and
\* the root has an edge to it if and only if no section links the name
C25_Item(k) ==
    /\ Cardinality(C25_Nodes(<<"sw", k - 1>>)) = 1
    /\ \A n \in C25_Nodes(<<"sw", k - 1>>) :
          /\ result.nodes[n].type = "software"
          /\ result.nodes[n].label = Cut(data.software[k], SoftwareLabelLen)
    /\ \A i \in C25_Linking(data.software[k]) :
          \E e \in C25_Edge(<<"sec", i>>, <<"sw", k - 1>>) :
              result.edges[e].label = T("~ispol4zuet~")
    /\ C25_Edge(<<"root">>, <<"sw", k - 1>>) # {} <=> C25_Linking(data.software[k]) = {}
C25_SoftwareNodes == {n \in 1..Len(result.nodes) : result.nodes[n].type = "software"}

\* C25: in the graph of one record every software item has exactly one node
\* of type software, with an edge "использует" from every section that links
\* the item, and an edge from the root if and only if no section links it
C25_OneNodePerItem ==
    C25_Graph =>
        /\ Cardinality(C25_SoftwareNodes) = Len(data.software)
        /\ \A k \in 1..Len(data.software) : C25_Item(k)

\* a name listed twice and linked by a section: its second node hangs on the
\* root and no section has an edge to it
C25_SecondNodeOnRoot ==
    /\ C25_Graph
    /\ Len(data.software) = 2 /\ data.software[1] = data.software[2]
    /\ C25_Linking(data.software[2]) # {}
    /\ C25_Edge(<<"root">>, <<"sw", 1>>) # {}
    /\ \A i \in C25_Linking(data.software[2]) : C25_Edge(<<"sec", i>>, <<"sw", 1>>) = {}

-----------------------------------------------------------------------------
(* C26, C27: the graph of several records                                   *)

C26_Returned == fn = "build_multi_graph" /\ pc = "returned"
\* the sections of the graph: direction, discipline of the direction, section
C26_Disciplines == UNION {{<<k, j>> : j \in 1..Len(buf[k].discs)} : k \in 1..Len(buf)}
C26_Sections ==
    UNION {{<<d[1], d[2], i>> : i \in 1..Len(buf[d[1]].discs[d[2]].sections)} : d \in C26_Disciplines}
C26_Id(s) == DisciplinePrefix(s[1] - 1, s[2] - 1) \o T("sec-") \o Dec(s[3] - 1)
C26_Norm(s) == name_norm(buf[s[1]].discs[s[2]].sections[s[3]].name)
C26_SameDiscipline(a, b) == a[1] = b[1] /\ a[2] = b[2]
\* the edges "общий раздел" between two section nodes
C26_Shared(a, b) ==
    {e \in 1..Len(ret.edges) :
        /\ ret.edges[e].label = T("~obxiy~ ~razdel~")
        /\ {ret.edges[e].source, ret.edges[e].target} = {C26_Id(a), C26_Id(b)}}

\* C26: two section nodes of the multi-document graph are joined by an edge
\* "общий раздел" exactly when they belong to different disciplines and their
\* normalized names coincide, and then by exactly one edge
C26_SharedAcrossDisciplines ==
    C26_Returned =>
        \A a, b \in C26_Sections :
            a # b =>
                Cardinality(C26_Shared(a, b)) =
                    IF ~C26_SameDiscipline(a, b) /\ C26_Norm(a) = C26_Norm(b) THEN 1 ELSE 0

\* two sections of one discipline are joined by an edge "общий раздел"
C26_SharedWithinDiscipline ==
    /\ C26_Returned /\ arg = <<RepeatedRecord>>
    /\ C26_Shared(<<1, 1, 1>>, <<1, 1, 3>>) # {}
\* sections of two disciplines with the same name of five characters are not joined
C26_ShortNameNotShared ==
    /\ C26_Returned /\ arg = <<AppliedRecord, SurveyRecord>>
    /\ C26_Norm(<<1, 1, 2>>) = C26_Norm(<<2, 1, 1>>)
    /\ C26_Shared(<<1, 1, 2>>, <<2, 1, 1>>) = {}

C27_Ids == [n \in 1..Len(ret.nodes) |-> ret.nodes[n].id]
C27_OfType(type) == {n \in 1..Len(ret.nodes) : ret.nodes[n].type = type}
C27_Keys == {dir_key(arg[i]) : i \in 1..Len(arg)}
\* the nodes whose identifier starts with the prefix of discipline j of direction k
C27_Prefixed(d) ==
    {n \in 1..Len(ret.nodes) :
        /\ Len(C27_Ids[n]) > Len(DisciplinePrefix(d[1] - 1, d[2] - 1))
        /\ SubSeq(C27_Ids[n], 1, Len(DisciplinePrefix(d[1] - 1, d[2] - 1)))
              = DisciplinePrefix(d[1] - 1, d[2] - 1)}
C27_Root(d) == DisciplinePrefix(d[1] - 1, d[2] - 1) \o T("root")
C27_Into(id) == {e \in 1..Len(ret.edges) : ret.edges[e].target = id}

\* C27: in the multi-document graph all node identifiers are distinct; there
\* is one super-root and one direction node for every distinct grouping key;
\* the nodes of every discipline carry the prefix of its direction index and
\* its position in the group; the root of every discipline has exactly one
\* incoming edge, which comes from its direction node
C27_Namespaced ==
    C26_Returned =>
        /\ \A m, n \in 1..Len(ret.nodes) : m # n => C27_Ids[m] # C27_Ids[n]
        /\ Cardinality(C27_OfType("super_root")) = 1
        /\ \A n \in C27_OfType("super_root") : C27_Ids[n] = SuperRoot
        /\ Cardinality(C27_OfType("direction")) = Cardinality(C27_Keys)
        /\ \A key \in C27_Keys :
              Cardinality({n \in C27_OfType("direction") :
                              ret.nodes[n].label = Cut(key, DirectionLabelLen)}) = 1
        /\ Cardinality(C26_Disciplines) = Len(arg)
        /\ Cardinality(C27_OfType("discipline")) = Len(arg)
        /\ Len(ret.nodes) = 1 + Cardinality(C27_Keys)
                              + Cardinality(UNION {C27_Prefixed(d) : d \in C26_Disciplines})
        /\ \A d \in C26_Disciplines :
              /\ Cardinality(C27_Prefixed(d))
                    = Len(GraphNodes(buf[d[1]].discs[d[2]], <<>>))
              /\ \E n \in C27_Prefixed(d) :
                    C27_Ids[n] = C27_Root(d) /\ ret.nodes[n].type = "discipline"
              /\ Cardinality(C27_Into(C27_Root(d))) = 1
              /\ \A e \in C27_Into(C27_Root(d)) : ret.edges[e].source = DirectionId(d[1] - 1)

\* two directions, the first with two disciplines that both have a section 0
C27_Witness ==
    /\ C26_Returned /\ arg = <<AppliedRecord, PhysicsRecord, OpticsRecord>>
    /\ Len(buf) = 2 /\ Len(buf[1].discs) = 2
    /\ T("d0-0-sec-0") \in Range(C27_Ids) /\ T("d0-1-sec-0") \in Range(C27_Ids)
    /\ T("d1-0-sec-0") \in Range(C27_Ids)
\* the same record twice in the list
C27_WitnessTwice ==
    /\ C26_Returned /\ arg = <<PhysicsRecord, PhysicsRecord>>
    /\ T("d0-0-sw-1") \in Range(C27_Ids) /\ T("d0-1-sw-1") \in Range(C27_Ids)

\* C28 as stated: the segmenter never discards accumulated lines. On every
\* step of the loop taken in state main or additional with lines
\* accumulated, either the lines stay accumulated in the same state, or
\* every entry that _flush makes of them (the merged lines of at least 10
\* characters) is an entry of the list of that state; a header of the same
\* list as the current state is no exception.
C28_Kept ==
    /\ pc' = "lines" /\ state' = state
    /\ Len(buf') >= Len(buf) /\ SubSeq(buf', 1, Len(buf)) = buf

C28_Among(made, target) ==
    \A k \in 1..Len(made) : \E j \in 1..Len(target) : target[j] = made[k]

C28_Step ==
    pc = "lines" /\ state \in C19_Lists /\ buf # <<>> =>
        \/ C28_Kept
        \/ C28_Among(_flush(buf, <<>>), C19_List(result', state))

C28_NoLineDiscarded == [][C28_Step]_vars

\* the header of the main list came a second time after a line of the main
\* list: the line is gone, both lists are empty
C28_SameHeaderDiscards ==
    /\ fn = "parse_docx_structural" /\ pc = "lines" /\ pos = 4
    /\ _is_main(clean(arg.paragraphs[1])) /\ _is_main(clean(arg.paragraphs[3]))
    /\ Len(_flush(<<clean(arg.paragraphs[2])>>, <<>>)) = 1
    /\ state = "main" /\ buf = <<>>
    /\ result.main = <<>> /\ result.additional = <<>>

\* the same with the header of the additional list
C28_AdditionalDiscards ==
    /\ fn = "parse_docx_structural" /\ pc = "lines" /\ pos = 4
    /\ _is_add(clean(arg.paragraphs[1])) /\ _is_add(clean(arg.paragraphs[3]))
    /\ Len(_flush(<<clean(arg.paragraphs[2])>>, <<>>)) = 1
    /\ state = "additional" /\ buf = <<>>
    /\ result.main = <<>> /\ result.additional = <<>>

\* C29 as stated: done is final. Once a stop line has set the state to done,
\* no later line of the stream changes the state, accumulates a line or
\* adds an entry to the main or the additional list, and the end of the
\* stream adds none either.
C29_Step ==
    pc = "lines" /\ state = "done" =>
        state' = "done" /\ buf' = <<>> /\ result' = result

C29_DoneIsFinal == [][C29_Step]_vars

\* a stop line came first, the header of the main list and a citation
\* after it: at the end of the paragraphs the citation is an entry of the
\* main list
C29_EntryAfterDone ==
    /\ fn = "parse_docx_structural" /\ pc = "tables" /\ Len(arg.paragraphs) = 3
    /\ ~_is_main(clean(arg.paragraphs[1])) /\ ~_is_add(clean(arg.paragraphs[1]))
    /\ _is_stop(clean(arg.paragraphs[1]))
    /\ _is_main(clean(arg.paragraphs[2]))
    /\ state = "main" /\ Len(buf) = 1
    /\ Len(result.main) = 1 /\ result.additional = <<>>

\* the same in the text of a PDF: after the stop line the header of the
\* additional list set the state to additional
C29_StateAfterDone ==
    /\ fn = "parse_pdf_regex" /\ pc = "lines" /\ pos = 3
    /\ _is_stop(clean(Lines[1])) /\ ~_is_main(clean(Lines[1])) /\ ~_is_add(clean(Lines[1]))
    /\ state = "additional"

C30_Ids(g) == {g.nodes[n].id : n \in 1..Len(g.nodes)}

C30_WellFormed(g) ==
    /\ \A m, n \in 1..Len(g.nodes) : m # n => g.nodes[m].id # g.nodes[n].id
    /\ \A e \in 1..Len(g.edges) :
          g.edges[e].source \in C30_Ids(g) /\ g.edges[e].target \in C30_Ids(g)

\* the names a section of the record links that are not in its software list
C30_Absent(d) ==
    {sw \in UNION {Range(d.sections[i].linked_software) : i \in 1..Len(d.sections)} :
        sw \notin Range(d.software)}

\* the record lists a name twice
C30_Repeats(d) == \E j, k \in 1..Len(d.software) : j # k /\ d.software[j] = d.software[k]

\* C30: the graph build_multi_graph returns for a list of records, and the
\* graph build_graph makes of every record of the list, is well-formed: no
\* two nodes have the same identifier, and the source and the target of
\* every edge are identifiers of nodes of the same graph; this includes
\* records that list a software name twice and records whose sections link
\* a name that is not in the software list.
C30_GraphsWellFormed ==
    /\ pc = "returned" => C30_WellFormed(ret)
    /\ \A i \in 1..Len(arg) : C30_WellFormed(build_graph(arg[i], <<>>))

\* the graph of a record with a repeated software name and a record that
\* links an absent name: every listed name has one node, the absent name
\* none
C30_Witness ==
    /\ fn = "build_multi_graph" /\ pc = "returned" /\ arg = <<RepeatedRecord, OpticsRecord>>
    /\ C30_Repeats(arg[1]) /\ C30_Absent(arg[2]) # {}
    /\ Cardinality({n \in 1..Len(ret.nodes) : ret.nodes[n].type = "software"})
          = Len(arg[1].software) + Len(arg[2].software)
    /\ Len(ret.edges) > Len(ret.nodes)

\* a software name linked by two sections has one node
C30_WitnessLinkedTwice ==
    /\ fn = "build_multi_graph" /\ pc = "returned" /\ arg = <<PhysicsRecord>>
    /\ Cardinality({n \in 1..Len(ret.nodes) : ret.nodes[n].type = "software"}) = 2
    /\ Cardinality({e \in 1..Len(ret.edges) : ret.edges[e].label = T("~ispol4zuet~")}) = 3

====
